---------------------------- MODULE Spec2Model ----------------------------
(***************************************************************************)
(* Geometry/metric engine of the sinusoidal ("snake") chart,               *)
(* src/src/coordinates/sinusoidal.cpp.                                     *)
(*                                                                         *)
(* Real numbers are exact rationals [n |-> numerator, d |-> denominator]   *)
(* in lowest terms with d > 0; d = 0 encodes the non-finite values of the  *)
(* floating point type (NaN, +inf, -inf).  std::cos and std::sin are       *)
(* sampled on a grid of half radians (CosSample, SinSample); std::sqrt is  *)
(* exact and is only ever applied to rational squares, which the inputs    *)
(* are chosen to produce.                                                  *)
(***************************************************************************)
EXTENDS Integers, Sequences, FiniteSets, TLC

VARIABLES
  A, K,                    \* chart parameters (globals::A, globals::K)
  MAGNETIC_FIELDS_ENABLED, \* build configuration
  pmy_block,               \* the host MeshBlock
  cell_width1_i_, src_terms_i1_,
  metric_cell_i1_, metric_cell_i2_,
  metric_face1_i1_, metric_face1_i2_,
  metric_face2_i1_, metric_face2_i2_,
  metric_face3_i1_, metric_face3_i2_,
  trans_face1_i2_, trans_face2_i1_, trans_face2_i2_, trans_face3_i2_,
  volumes, areas, lengths, \* output buffers of the geometry providers
  g, g_inv,                \* output buffers of the metric providers
  prim_left, prim_right,   \* interface states, transformed in place
  bnorm,                   \* normal-field output buffer (bx / by / bz)
  flux,                    \* flux buffer, transformed in place
  prim, cons,              \* full-block primitive / conserved arrays
  sweep,                   \* position of the row loops in progress
  heap,                    \* allocations and releases of each array
  build,                   \* build configuration of the output writer
  pM,                      \* the Mesh as the writer's rank sees it
  output_params,           \* ATHDF5Output::output_params
  pin,                     \* the writer's block of the ParameterInput
  file,                    \* state of the HDF5 file of the current cycle
  ids,                     \* the writer's arrays of dataset and group ids
  h5,                      \* HDF5 calls made on the current file, in order
  args                     \* the most recent call and the arguments it used

coordVars == <<cell_width1_i_, src_terms_i1_, metric_cell_i1_, metric_cell_i2_,
               metric_face1_i1_, metric_face1_i2_, metric_face2_i1_,
               metric_face2_i2_, metric_face3_i1_, metric_face3_i2_,
               trans_face1_i2_, trans_face2_i1_, trans_face2_i2_,
               trans_face3_i2_>>

configVars == <<A, K, MAGNETIC_FIELDS_ENABLED, pmy_block>>

providerVars == <<volumes, areas, lengths>>

metricVars == <<g, g_inv>>

frameVars == <<prim_left, prim_right, bnorm, flux>>

sourceVars == <<prim, cons>>

loopVars == <<sweep>>

lifeVars == <<heap>>

outputVars == <<build, pM, output_params, pin, file, ids, h5>>

\* everything but the state of the output writer
coordinatesVars == <<configVars, coordVars, providerVars, metricVars,
                     frameVars, sourceVars, loopVars, lifeVars, args>>

vars == <<coordinatesVars, outputVars>>

---------------------------------------------------------------------------
(* Bounds of the model *)

Nx1 == 2        \* block_size.nx1
Nx2 == 2        \* block_size.nx2 of a block extended along x2
Nx3 == 2        \* block_size.nx3 of a block extended along x3
NGHOST == 1     \* ghost-zone width
MaxX0 == 2      \* the block's first face lies at one of MaxX0+1 positions

---------------------------------------------------------------------------
(* Real arithmetic *)

Abs(n) == IF n < 0 THEN 0 - n ELSE n

Sgn(n) == IF n < 0 THEN 0 - 1 ELSE IF n > 0 THEN 1 ELSE 0

RECURSIVE Gcd(_, _)
Gcd(a, b) == IF b = 0 THEN a ELSE Gcd(b, a % b)

\* the rational n/d (d # 0) in lowest terms
R(n, d) ==
  LET c == Gcd(Abs(n), Abs(d))
  IN  [n |-> (Sgn(d) * n) \div c, d |-> Abs(d) \div c]

NaN == [n |-> 0, d |-> 0]

Inf(s) == [n |-> s, d |-> 0]

Zero == [n |-> 0, d |-> 1]

One == [n |-> 1, d |-> 1]

Two == [n |-> 2, d |-> 1]

Four == [n |-> 4, d |-> 1]

Half == [n |-> 1, d |-> 2]

IsFinite(x) == x.d # 0

IsNaN(x) == x.d = 0 /\ x.n = 0

Neg(x) == [n |-> 0 - x.n, d |-> x.d]

Add(x, y) ==
  IF IsFinite(x) /\ IsFinite(y)
  THEN LET c == Gcd(x.d, y.d)
       IN  R(x.n * (y.d \div c) + y.n * (x.d \div c), (x.d \div c) * y.d)
  ELSE IF IsNaN(x) \/ IsNaN(y) THEN NaN
  ELSE IF IsFinite(x) THEN y
  ELSE IF IsFinite(y) THEN x
  ELSE IF x.n = y.n THEN x ELSE NaN

Sub(x, y) == Add(x, Neg(y))

Mul(x, y) ==
  IF IsFinite(x) /\ IsFinite(y)
  THEN LET c == Gcd(Abs(x.n), y.d)
           e == Gcd(Abs(y.n), x.d)
       IN  R((x.n \div c) * (y.n \div e), (x.d \div e) * (y.d \div c))
  ELSE IF IsNaN(x) \/ IsNaN(y) \/ x.n = 0 \/ y.n = 0 THEN NaN
  ELSE Inf(Sgn(x.n) * Sgn(y.n))

Div(x, y) ==
  IF IsNaN(x) \/ IsNaN(y) THEN NaN
  ELSE IF IsFinite(x) /\ IsFinite(y)
       THEN IF y.n # 0 THEN R(x.n * y.d, x.d * y.n)
            ELSE IF x.n = 0 THEN NaN ELSE Inf(Sgn(x.n))
  ELSE IF IsFinite(y) THEN Inf(IF y.n < 0 THEN 0 - x.n ELSE x.n)
  ELSE IF IsFinite(x) THEN Zero
  ELSE NaN

SQR(x) == Mul(x, x)

\* left-to-right sum and product of a sequence of reals
RECURSIVE Sum(_)
Sum(s) == IF Len(s) = 1 THEN s[1] ELSE Add(Sum(SubSeq(s, 1, Len(s) - 1)), s[Len(s)])

RECURSIVE Prod(_)
Prod(s) == IF Len(s) = 1 THEN s[1] ELSE Mul(Prod(SubSeq(s, 1, Len(s) - 1)), s[Len(s)])

\* integer square root of a perfect square
ISqrt(n) == CHOOSE r \in 0..n : r * r = n

Sqrt(x) ==
  IF IsNaN(x) THEN NaN
  ELSE IF ~IsFinite(x) THEN (IF x.n > 0 THEN x ELSE NaN)
  ELSE IF x.n < 0 THEN NaN
  ELSE [n |-> ISqrt(x.n), d |-> ISqrt(x.d)]

\* std::cos at an argument that is a multiple of half a radian
CosTable == <<R(1, 1), R(3, 4), R(1, 2), R(0, 1), R(-1, 2), R(-3, 4),
              R(-1, 1), R(-3, 4), R(-1, 2), R(0, 1), R(1, 2), R(3, 4)>>

\* the argument x >= 0 counted in half radians
HalfRadians(x) == CHOOSE m \in 0..(2 * x.n) : m * x.d = 2 * x.n

CosSample(x) == CosTable[(HalfRadians(x) % 12) + 1]

\* std::sin at an argument that is a multiple of half a radian
SinSample(x) == CosTable[((HalfRadians(x) + 9) % 12) + 1]

---------------------------------------------------------------------------
(* The host MeshBlock *)

\* first and last interior index, and index range, of a direction with nx cells
Start(nx) == IF nx = 1 THEN 0 ELSE NGHOST

End(nx) == Start(nx) + nx - 1

Cells(nx) == IF nx = 1 THEN 0..0 ELSE 0..(nx + 2 * NGHOST - 1)

Faces(nx) == IF nx = 1 THEN 0..1 ELSE 0..(nx + 2 * NGHOST)

\* face positions along x1: spacings alternate between 10 and 30
X1f(x0, i) == R(10 * (x0 + 2 * i - (i % 2)), 1)

X2f(j) == R(j * (j + 3), 1)

X3f(k) == R(k * (k + 5), 2)

MeshBlock(x0, nx2, nx3) ==
  [block_size |-> [nx1 |-> Nx1, nx2 |-> nx2, nx3 |-> nx3],
   is |-> Start(Nx1), ie |-> End(Nx1),
   js |-> Start(nx2), je |-> End(nx2),
   ks |-> Start(nx3), ke |-> End(nx3),
   x1f |-> [i \in Faces(Nx1) |-> X1f(x0, i)],
   x2f |-> [j \in Faces(nx2) |-> X2f(j)],
   x3f |-> [k \in Faces(nx3) |-> X3f(k)],
   dx1f |-> [i \in Cells(Nx1) |-> Sub(X1f(x0, i + 1), X1f(x0, i))],
   dx2f |-> [j \in Cells(nx2) |-> Sub(X2f(j + 1), X2f(j))],
   dx3f |-> [k \in Cells(nx3) |-> Sub(X3f(k + 1), X3f(k))],
   x1v |-> [i \in Cells(Nx1) |-> Mul(Half, Add(X1f(x0, i), X1f(x0, i + 1)))]]

\* the blocks are extended along x1 and along one transverse direction
Shapes == {<<Nx2, 1>>, <<1, Nx3>>}

\* cell indices of the block along x1, x2 and x3
I1 == Cells(Nx1)

I2 == DOMAIN pmy_block.dx2f

I3 == DOMAIN pmy_block.dx3f

---------------------------------------------------------------------------
(* Constructor: the precomputed geometry at index i *)

\* the constructor storing alpha^2 - 1 on the x1 faces
Geometry_alpha(a, kk, pb, i) ==
  LET r_c == pb.x1v[i]
      r_m == pb.x1f[i]
      r_p == pb.x1f[i + 1]
      sin_2m == SinSample(Mul(Mul(Two, kk), r_m))
      sin_2p == SinSample(Mul(Mul(Two, kk), r_p))
      cos_c == CosSample(Mul(kk, r_c))
      cos_m == CosSample(Mul(kk, r_m))
      cos_p == CosSample(Mul(kk, r_p))
      a2k2 == Mul(SQR(a), SQR(kk))
      alpha_sq_c == Add(One, Mul(a2k2, SQR(cos_c)))
      alpha_sq_m == Mul(a2k2, SQR(cos_m))
      alpha_c == Sqrt(alpha_sq_c)
      beta_c == Mul(Mul(a, kk), cos_c)
      beta_m == Mul(Mul(a, kk), cos_m)
      beta_p == Mul(Mul(a, kk), cos_p)
  IN  [cell_width1 |->
         Mul(Div(One, Mul(Four, Add(One, a2k2))),
             Sub(Mul(Mul(Mul(Two, kk), Add(Two, a2k2)), pb.dx1f[i]),
                 Mul(a2k2, Sub(sin_2m, sin_2p)))),
       src_terms_i1 |-> Div(Sub(beta_m, beta_p), pb.dx1f[i]),
       metric_cell_i1 |-> alpha_sq_c,
       metric_cell_i2 |-> beta_c,
       metric_face1_i1 |-> alpha_sq_m,
       metric_face1_i2 |-> beta_m,
       metric_face2_i1 |-> alpha_sq_c,
       metric_face2_i2 |-> beta_c,
       metric_face3_i1 |-> alpha_sq_c,
       metric_face3_i2 |-> beta_c,
       trans_face1_i2 |-> beta_m,
       trans_face2_i1 |-> alpha_c,
       trans_face2_i2 |-> beta_c,
       trans_face3_i2 |-> beta_m]

Geometry(a, kk, pb, i) ==
  LET r_c == pb.x1v[i]
      r_m == pb.x1f[i]
      r_p == pb.x1f[i + 1]
      sin_2m == SinSample(Mul(Mul(Two, kk), r_m))
      sin_2p == SinSample(Mul(Mul(Two, kk), r_p))
      cos_c == CosSample(Mul(kk, r_c))
      cos_m == CosSample(Mul(kk, r_m))
      cos_p == CosSample(Mul(kk, r_p))
      a2k2 == Mul(SQR(a), SQR(kk))
      alpha_sq_c == Add(One, Mul(a2k2, SQR(cos_c)))
      alpha_sq_m == Add(One, Mul(a2k2, SQR(cos_m)))
      alpha_c == Sqrt(alpha_sq_c)
      beta_c == Mul(Mul(a, kk), cos_c)
      beta_m == Mul(Mul(a, kk), cos_m)
      beta_p == Mul(Mul(a, kk), cos_p)
  IN  [cell_width1 |->
         Mul(Div(One, Mul(Four, Add(One, a2k2))),
             Sub(Mul(Mul(Mul(Two, kk), Add(Two, a2k2)), pb.dx1f[i]),
                 Mul(a2k2, Sub(sin_2m, sin_2p)))),
       src_terms_i1 |-> Div(Sub(beta_m, beta_p), pb.dx1f[i]),
       metric_cell_i1 |-> alpha_sq_c,
       metric_cell_i2 |-> beta_c,
       metric_face1_i1 |-> alpha_sq_m,
       metric_face1_i2 |-> beta_m,
       metric_face2_i1 |-> alpha_sq_c,
       metric_face2_i2 |-> beta_c,
       metric_face3_i1 |-> alpha_sq_c,
       metric_face3_i2 |-> beta_c,
       trans_face1_i2 |-> beta_m,
       trans_face2_i1 |-> alpha_c,
       trans_face2_i2 |-> beta_c,
       trans_face3_i2 |-> beta_m]

\* the chart parameters: the built-in pair and flat charts (amplitude 0)
Charts == {<<R(10, 1), R(1, 10)>>, <<R(0, 1), R(1, 10)>>, <<R(0, 1), R(1, 1)>>}

\* a zero-filled AthenaArray over the slots S and the x1 cells
NewAthenaArray(S) == [s \in S |-> [i \in I1 |-> Zero]]

---------------------------------------------------------------------------
(* Slots of the caller's arrays *)

I00 == "I00"

I11 == "I11"

I12 == "I12"

I22 == "I22"

I33 == "I33"

MetricSlots == {I00, I11, I12, I22, I33}

IDN == "IDN"

IM1 == "IM1"

IM2 == "IM2"

IM3 == "IM3"

IEN == "IEN"

IVX == IM1

IVY == IM2

IVZ == IM3

IBY == "IBY"

IBZ == "IBZ"

HydroSlots == {IDN, IM1, IM2, IM3, IEN}

PrimSlots == {IDN, IVX, IVY, IVZ, IEN, IBY, IBZ}

---------------------------------------------------------------------------
(* State after construction *)

\* largest number of passive scalars of a build
MaxNIFOV == 2

\* the id arrays of the output writer: the array and, for an array of
\* arrays, the index of the component
ArrayKeys ==
  {<<a, 0>> : a \in {"grpid", "x1fid", "x2fid", "x3fid", "rhoid", "eid", "erid",
                     "er0id", "sigmasid", "sigmaaid"}}
    \cup {<<a, n>> : a \in {"mid", "bid", "frid", "fr0id"}, n \in 0..2}
    \cup {<<"prid", n>> : n \in 0..8}
    \cup {<<"ifovid", n>> : n \in 0..(MaxNIFOV - 1)}

\* no output writer has been constructed
NoOutput ==
  /\ build = [NON_BAROTROPIC_EOS |-> FALSE, RADIATION_ENABLED |-> FALSE,
              NIFOV |-> 0]
  /\ pM = [nbtotal |-> 0, nbs |-> 0, nbe |-> -1]
  /\ output_params = [variable |-> "", file_number |-> 0, next_time |-> Zero,
                      dt |-> Zero]
  /\ pin = [file_number |-> 0, next_time |-> Zero]
  /\ file = "none"
  /\ ids = [key \in ArrayKeys |-> <<>>]
  /\ h5 = <<>>

\* the row loops followed iteration by iteration
LoopOps == {"PrimToLocal1", "FluxToGlobal1"}

\* no call of op is in progress
Idle(op) == [pc |-> "idle", todo |-> {}, call |-> [op |-> op]]

\* the arrays the constructor allocates, in the order of its calls
Allocations ==
  <<"cell_width1_i_", "src_terms_i1_", "metric_cell_i1_", "metric_cell_i2_",
    "metric_face1_i1_", "metric_face1_i2_", "metric_face2_i1_",
    "metric_face2_i2_", "metric_face3_i1_", "metric_face3_i2_",
    "trans_face1_i2_", "trans_face2_i1_", "trans_face2_i2_",
    "trans_face3_i2_">>

\* the arrays of the host MeshBlock the constructor fills but does not own
MeshBlockArrays == {"x1v", "x2v", "x3v", "dx1v", "dx2v", "dx3v"}

\* every array the object touches
ArrayNames == {Allocations[n] : n \in DOMAIN Allocations} \cup MeshBlockArrays

\* how often the name a occurs in the sequence of calls s
Count(a, s) == Cardinality({n \in DOMAIN s : s[n] = a})

\* number of entries NewAthenaArray gives each precomputed array
n_cells_1 == pmy_block.block_size.nx1 + 2 * NGHOST

\* a constructor whose pass stops at the interior cells
ConstructorPass_interior == pmy_block.is..pmy_block.ie

\* the indices the constructor's pass over x1 visits
ConstructorPass == (pmy_block.is - NGHOST)..(pmy_block.ie + NGHOST)

\* a constructor differencing beta from the upper face to the lower face
Constructed_upward(f) ==
  [i \in 0..(n_cells_1 - 1) |->
     IF i \notin ConstructorPass THEN NaN
     ELSE IF f = "src_terms_i1" THEN Neg(Geometry(A, K, pmy_block, i)[f])
     ELSE Geometry(A, K, pmy_block, i)[f]]

\* the precomputed array of the field f as the constructor leaves it: the
\* entries the pass does not visit keep no number
Constructed(f) ==
  [i \in 0..(n_cells_1 - 1) |->
     IF i \in ConstructorPass THEN Geometry(A, K, pmy_block, i)[f] ELSE NaN]

\* a constructor filling the x2-face metric with the x1-face pair
Init_face2 ==
  /\ \E ch \in Charts : A = ch[1] /\ K = ch[2]
  /\ MAGNETIC_FIELDS_ENABLED \in BOOLEAN
  /\ \E x0 \in 0..MaxX0, sh \in Shapes : pmy_block = MeshBlock(x0, sh[1], sh[2])
  /\ cell_width1_i_ = Constructed("cell_width1")
  /\ src_terms_i1_ = Constructed("src_terms_i1")
  /\ metric_cell_i1_ = Constructed("metric_cell_i1")
  /\ metric_cell_i2_ = Constructed("metric_cell_i2")
  /\ metric_face1_i1_ = Constructed("metric_face1_i1")
  /\ metric_face1_i2_ = Constructed("metric_face1_i2")
  /\ metric_face2_i1_ = Constructed("metric_face1_i1")
  /\ metric_face2_i2_ = Constructed("metric_face1_i2")
  /\ metric_face3_i1_ = Constructed("metric_face3_i1")
  /\ metric_face3_i2_ = Constructed("metric_face3_i2")
  /\ trans_face1_i2_ = Constructed("trans_face1_i2")
  /\ trans_face2_i1_ = Constructed("trans_face2_i1")
  /\ trans_face2_i2_ = Constructed("trans_face2_i2")
  /\ trans_face3_i2_ = Constructed("trans_face3_i2")
  /\ volumes = [i \in I1 |-> Zero]
  /\ areas = [i \in I1 |-> Zero]
  /\ lengths = [i \in I1 |-> Zero]
  /\ g = NewAthenaArray(MetricSlots)
  /\ g_inv = NewAthenaArray(MetricSlots)
  /\ prim_left = NewAthenaArray(PrimSlots)
  /\ prim_right = NewAthenaArray(PrimSlots)
  /\ bnorm = [i \in I1 |-> Zero]
  /\ flux = NewAthenaArray(PrimSlots)
  /\ prim = [s \in HydroSlots |-> [k \in I3 |-> [j \in I2 |-> [i \in I1 |-> Zero]]]]
  /\ cons = [s \in HydroSlots |-> [k \in I3 |-> [j \in I2 |-> [i \in I1 |-> Zero]]]]
  /\ sweep = [op \in LoopOps |-> Idle(op)]
  /\ heap = [a \in ArrayNames |->
               [news |-> Count(a, Allocations), deletes |-> 0]]
  /\ NoOutput
  /\ args = [op |-> "Coordinates"]

Init ==
  /\ \E ch \in Charts : A = ch[1] /\ K = ch[2]
  /\ MAGNETIC_FIELDS_ENABLED \in BOOLEAN
  /\ \E x0 \in 0..MaxX0, sh \in Shapes : pmy_block = MeshBlock(x0, sh[1], sh[2])
  /\ cell_width1_i_ = Constructed("cell_width1")
  /\ src_terms_i1_ = Constructed("src_terms_i1")
  /\ metric_cell_i1_ = Constructed("metric_cell_i1")
  /\ metric_cell_i2_ = Constructed("metric_cell_i2")
  /\ metric_face1_i1_ = Constructed("metric_face1_i1")
  /\ metric_face1_i2_ = Constructed("metric_face1_i2")
  /\ metric_face2_i1_ = Constructed("metric_face2_i1")
  /\ metric_face2_i2_ = Constructed("metric_face2_i2")
  /\ metric_face3_i1_ = Constructed("metric_face3_i1")
  /\ metric_face3_i2_ = Constructed("metric_face3_i2")
  /\ trans_face1_i2_ = Constructed("trans_face1_i2")
  /\ trans_face2_i1_ = Constructed("trans_face2_i1")
  /\ trans_face2_i2_ = Constructed("trans_face2_i2")
  /\ trans_face3_i2_ = Constructed("trans_face3_i2")
  /\ volumes = [i \in I1 |-> Zero]
  /\ areas = [i \in I1 |-> Zero]
  /\ lengths = [i \in I1 |-> Zero]
  /\ g = NewAthenaArray(MetricSlots)
  /\ g_inv = NewAthenaArray(MetricSlots)
  /\ prim_left = NewAthenaArray(PrimSlots)
  /\ prim_right = NewAthenaArray(PrimSlots)
  /\ bnorm = [i \in I1 |-> Zero]
  /\ flux = NewAthenaArray(PrimSlots)
  /\ prim = [s \in HydroSlots |-> [k \in I3 |-> [j \in I2 |-> [i \in I1 |-> Zero]]]]
  /\ cons = [s \in HydroSlots |-> [k \in I3 |-> [j \in I2 |-> [i \in I1 |-> Zero]]]]
  /\ sweep = [op \in LoopOps |-> Idle(op)]
  /\ heap = [a \in ArrayNames |->
               [news |-> Count(a, Allocations), deletes |-> 0]]
  /\ NoOutput
  /\ args = [op |-> "Coordinates"]

---------------------------------------------------------------------------
(* Volume/Area/Length Provider *)

\* the x-index bounds callers pass: interior cells, interior faces, the whole
\* row and an empty range
Ranges ==
  {<<pmy_block.is, pmy_block.ie>>, <<pmy_block.is, pmy_block.ie + 1>>,
   <<pmy_block.is - NGHOST, pmy_block.ie + NGHOST>>,
   <<pmy_block.ie + 1, pmy_block.is>>}

\* the output arrays callers pass: freshly allocated or holding stale values
Buffers == {[i \in I1 |-> Zero], [i \in I1 |-> R(-1, 1)]}

CenterWidth1(k, j, i) == cell_width1_i_[i]

\* CellVolume taking the x1 width from the precomputed cell widths
CellVolume_width(k, j, il, iu, buf) ==
  LET delta_y == pmy_block.dx2f[j]
      delta_z == pmy_block.dx3f[k]
  IN  /\ volumes' = [i \in I1 |->
                       IF i \in il..iu
                       THEN LET delta_x == cell_width1_i_[i]
                            IN  Mul(Mul(delta_x, delta_y), delta_z)
                       ELSE buf[i]]
      /\ args' = [op |-> "CellVolume", k |-> k, j |-> j, il |-> il, iu |-> iu,
                  buf |-> buf]
      /\ UNCHANGED <<configVars, outputVars, loopVars, lifeVars, coordVars,
                     areas, lengths, metricVars, frameVars, sourceVars>>

CellVolume(k, j, il, iu, buf) ==
  LET delta_y == pmy_block.dx2f[j]
      delta_z == pmy_block.dx3f[k]
  IN  /\ volumes' = [i \in I1 |->
                       IF i \in il..iu
                       THEN LET delta_x == pmy_block.dx1f[i]
                            IN  Mul(Mul(delta_x, delta_y), delta_z)
                       ELSE buf[i]]
      /\ args' = [op |-> "CellVolume", k |-> k, j |-> j, il |-> il, iu |-> iu,
                  buf |-> buf]
      /\ UNCHANGED <<configVars, outputVars, loopVars, lifeVars, coordVars,
                     areas, lengths, metricVars, frameVars, sourceVars>>

Face1Area(k, j, il, iu, buf) ==
  LET delta_y == pmy_block.dx2f[j]
      delta_z == pmy_block.dx3f[k]
  IN  /\ areas' = [i \in I1 |->
                     IF i \in il..iu THEN Mul(delta_y, delta_z) ELSE buf[i]]
      /\ args' = [op |-> "Face1Area", k |-> k, j |-> j, il |-> il, iu |-> iu,
                  buf |-> buf]
      /\ UNCHANGED <<configVars, outputVars, loopVars, lifeVars, coordVars,
                     volumes, lengths, metricVars, frameVars, sourceVars>>

\* Face2Area multiplying by the x2 spacing instead of the x3 spacing
Face2Area_dy(k, j, il, iu, buf) ==
  LET delta_z == pmy_block.dx2f[j]
  IN  /\ areas' = [i \in I1 |->
                     IF i \in il..iu
                     THEN LET delta_x == pmy_block.dx1f[i]
                          IN  Mul(delta_x, delta_z)
                     ELSE buf[i]]
      /\ args' = [op |-> "Face2Area", k |-> k, il |-> il, iu |-> iu,
                  buf |-> buf]
      /\ UNCHANGED <<configVars, outputVars, loopVars, lifeVars, coordVars,
                     volumes, lengths, metricVars, frameVars, sourceVars>>

Face2Area(k, j, il, iu, buf) ==
  LET delta_z == pmy_block.dx3f[k]
  IN  /\ areas' = [i \in I1 |->
                     IF i \in il..iu
                     THEN LET delta_x == pmy_block.dx1f[i]
                          IN  Mul(delta_x, delta_z)
                     ELSE buf[i]]
      /\ args' = [op |-> "Face2Area", k |-> k, il |-> il, iu |-> iu,
                  buf |-> buf]
      /\ UNCHANGED <<configVars, outputVars, loopVars, lifeVars, coordVars,
                     volumes, lengths, metricVars, frameVars, sourceVars>>

\* Face3Area multiplying by the x3 spacing instead of the x2 spacing
Face3Area_dz(k, j, il, iu, buf) ==
  LET delta_y == pmy_block.dx3f[k]
  IN  /\ areas' = [i \in I1 |->
                     IF i \in il..iu
                     THEN LET delta_x == pmy_block.dx1f[i]
                          IN  Mul(delta_x, delta_y)
                     ELSE buf[i]]
      /\ args' = [op |-> "Face3Area", j |-> j, il |-> il, iu |-> iu,
                  buf |-> buf]
      /\ UNCHANGED <<configVars, outputVars, loopVars, lifeVars, coordVars,
                     volumes, lengths, metricVars, frameVars, sourceVars>>

Face3Area(k, j, il, iu, buf) ==
  LET delta_y == pmy_block.dx2f[j]
  IN  /\ areas' = [i \in I1 |->
                     IF i \in il..iu
                     THEN LET delta_x == pmy_block.dx1f[i]
                          IN  Mul(delta_x, delta_y)
                     ELSE buf[i]]
      /\ args' = [op |-> "Face3Area", j |-> j, il |-> il, iu |-> iu,
                  buf |-> buf]
      /\ UNCHANGED <<configVars, outputVars, loopVars, lifeVars, coordVars,
                     volumes, lengths, metricVars, frameVars, sourceVars>>

NextVolume ==
  \E k \in I3, j \in I2, r \in Ranges, buf \in Buffers :
    CellVolume(k, j, r[1], r[2], buf)

SpecVolume == Init /\ [][NextVolume]_vars

NextArea ==
  \/ \E k \in I3, j \in I2, r \in Ranges, buf \in Buffers :
       Face1Area(k, j, r[1], r[2], buf)
  \/ \E k \in I3, j \in I2, r \in Ranges, buf \in Buffers :
       Face2Area(k, j, r[1], r[2], buf)
  \/ \E k \in I3, j \in I2, r \in Ranges, buf \in Buffers :
       Face3Area(k, j, r[1], r[2], buf)

SpecArea == Init /\ [][NextArea]_vars

\* Edge1Length using the cell-width array as its scratch space
Edge1Length_scratch(k, j, il, iu, buf) ==
  /\ cell_width1_i_' = [i \in I1 |-> IF i \in il..iu THEN pmy_block.dx1f[i]
                                      ELSE cell_width1_i_[i]]
  /\ lengths' = [i \in I1 |-> IF i \in il..iu THEN pmy_block.dx1f[i] ELSE buf[i]]
  /\ args' = [op |-> "Edge1Length", il |-> il, iu |-> iu, buf |-> buf]
  /\ UNCHANGED <<configVars, outputVars, loopVars, lifeVars, src_terms_i1_,
                 metric_cell_i1_, metric_cell_i2_, metric_face1_i1_,
                 metric_face1_i2_, metric_face2_i1_, metric_face2_i2_,
                 metric_face3_i1_, metric_face3_i2_, trans_face1_i2_,
                 trans_face2_i1_, trans_face2_i2_, trans_face3_i2_, volumes,
                 areas, metricVars, frameVars, sourceVars>>

Edge1Length(k, j, il, iu, buf) ==
  /\ lengths' = [i \in I1 |-> IF i \in il..iu THEN pmy_block.dx1f[i] ELSE buf[i]]
  /\ args' = [op |-> "Edge1Length", il |-> il, iu |-> iu, buf |-> buf]
  /\ UNCHANGED <<configVars, outputVars, loopVars, lifeVars, coordVars,
                 volumes, areas, metricVars, frameVars, sourceVars>>

Edge2Length(k, j, il, iu, buf) ==
  LET length == pmy_block.dx2f[j]
  IN  /\ lengths' = [i \in I1 |-> IF i \in il..iu THEN length ELSE buf[i]]
      /\ args' = [op |-> "Edge2Length", j |-> j, il |-> il, iu |-> iu,
                  buf |-> buf]
      /\ UNCHANGED <<configVars, outputVars, loopVars, lifeVars, coordVars,
                     volumes, areas, metricVars, frameVars, sourceVars>>

\* Edge3Length with an exclusive upper bound
Edge3Length_open(k, j, il, iu, buf) ==
  LET length == pmy_block.dx3f[k]
  IN  /\ lengths' = [i \in I1 |-> IF i \in il..(iu - 1) THEN length ELSE buf[i]]
      /\ args' = [op |-> "Edge3Length", k |-> k, il |-> il, iu |-> iu,
                  buf |-> buf]
      /\ UNCHANGED <<configVars, outputVars, loopVars, lifeVars, coordVars,
                     volumes, areas, metricVars, frameVars, sourceVars>>

Edge3Length(k, j, il, iu, buf) ==
  LET length == pmy_block.dx3f[k]
  IN  /\ lengths' = [i \in I1 |-> IF i \in il..iu THEN length ELSE buf[i]]
      /\ args' = [op |-> "Edge3Length", k |-> k, il |-> il, iu |-> iu,
                  buf |-> buf]
      /\ UNCHANGED <<configVars, outputVars, loopVars, lifeVars, coordVars,
                     volumes, areas, metricVars, frameVars, sourceVars>>

NextLength ==
  \/ \E k \in I3, j \in I2, r \in Ranges, buf \in Buffers :
       Edge1Length(k, j, r[1], r[2], buf)
  \/ \E k \in I3, j \in I2, r \in Ranges, buf \in Buffers :
       Edge2Length(k, j, r[1], r[2], buf)
  \/ \E k \in I3, j \in I2, r \in Ranges, buf \in Buffers :
       Edge3Length(k, j, r[1], r[2], buf)

CenterWidth2(k, j, i) == pmy_block.dx2f[j]

CenterWidth3(k, j, i) == pmy_block.dx3f[k]

\* a call of CenterWidth1, CenterWidth2 or CenterWidth3 and what it returns
CenterWidthCall(d, k, j, i) ==
  /\ args' = [op |-> "CenterWidth", d |-> d, k |-> k, j |-> j, i |-> i,
              result |-> IF d = 1 THEN CenterWidth1(k, j, i)
                         ELSE IF d = 2 THEN CenterWidth2(k, j, i)
                         ELSE CenterWidth3(k, j, i)]
  /\ UNCHANGED <<configVars, outputVars, loopVars, lifeVars, coordVars,
                 providerVars, metricVars, frameVars, sourceVars>>

NextWidth == \E d \in 1..3, k \in I3, j \in I2, i \in I1 : CenterWidthCall(d, k, j, i)

---------------------------------------------------------------------------
(* Metric Provider *)

\* CellMetric with the sign of the inverse off-diagonal term flipped
CellMetric_gi12(k, j) ==
  LET Terms(i) ==
        LET alpha_sq == metric_cell_i1_[i]
            beta == metric_cell_i2_[i]
        IN  [cov |-> (I00 :> Neg(One)) @@ (I11 :> alpha_sq) @@ (I12 :> Neg(beta))
                       @@ (I22 :> One) @@ (I33 :> One),
             inv |-> (I00 :> Neg(One)) @@ (I11 :> One) @@ (I12 :> Neg(beta))
                       @@ (I22 :> alpha_sq) @@ (I33 :> One)]
      Range == (pmy_block.is - NGHOST)..(pmy_block.ie + NGHOST)
  IN  /\ g' = [s \in MetricSlots |->
                 [i \in I1 |-> IF i \in Range THEN Terms(i).cov[s] ELSE g[s][i]]]
      /\ g_inv' = [s \in MetricSlots |->
                 [i \in I1 |-> IF i \in Range THEN Terms(i).inv[s] ELSE g_inv[s][i]]]
      /\ args' = [op |-> "CellMetric"]
      /\ UNCHANGED <<configVars, outputVars, loopVars, lifeVars, coordVars,
                     providerVars, frameVars, sourceVars>>

CellMetric(k, j) ==
  LET Terms(i) ==
        LET alpha_sq == metric_cell_i1_[i]
            beta == metric_cell_i2_[i]
        IN  [cov |-> (I00 :> Neg(One)) @@ (I11 :> alpha_sq) @@ (I12 :> Neg(beta))
                       @@ (I22 :> One) @@ (I33 :> One),
             inv |-> (I00 :> Neg(One)) @@ (I11 :> One) @@ (I12 :> beta)
                       @@ (I22 :> alpha_sq) @@ (I33 :> One)]
      Range == (pmy_block.is - NGHOST)..(pmy_block.ie + NGHOST)
  IN  /\ g' = [s \in MetricSlots |->
                 [i \in I1 |-> IF i \in Range THEN Terms(i).cov[s] ELSE g[s][i]]]
      /\ g_inv' = [s \in MetricSlots |->
                 [i \in I1 |-> IF i \in Range THEN Terms(i).inv[s] ELSE g_inv[s][i]]]
      /\ args' = [op |-> "CellMetric"]
      /\ UNCHANGED <<configVars, outputVars, loopVars, lifeVars, coordVars,
                     providerVars, frameVars, sourceVars>>

\* Face1Metric reading the cell-centered pair instead of the face-centered one
Face1Metric_cell(k, j) ==
  LET Terms(i) ==
        LET alpha_sq == metric_cell_i1_[i]
            beta == metric_cell_i2_[i]
        IN  [cov |-> (I00 :> Neg(One)) @@ (I11 :> alpha_sq) @@ (I12 :> Neg(beta))
                       @@ (I22 :> One) @@ (I33 :> One),
             inv |-> (I00 :> Neg(One)) @@ (I11 :> One) @@ (I12 :> beta)
                       @@ (I22 :> alpha_sq) @@ (I33 :> One)]
      Range == pmy_block.is..(pmy_block.ie + 1)
  IN  /\ g' = [s \in MetricSlots |->
                 [i \in I1 |-> IF i \in Range THEN Terms(i).cov[s] ELSE g[s][i]]]
      /\ g_inv' = [s \in MetricSlots |->
                 [i \in I1 |-> IF i \in Range THEN Terms(i).inv[s] ELSE g_inv[s][i]]]
      /\ args' = [op |-> "Face1Metric"]
      /\ UNCHANGED <<configVars, outputVars, loopVars, lifeVars, coordVars,
                     providerVars, frameVars, sourceVars>>

Face1Metric(k, j) ==
  LET Terms(i) ==
        LET alpha_sq == metric_face1_i1_[i]
            beta == metric_face1_i2_[i]
        IN  [cov |-> (I00 :> Neg(One)) @@ (I11 :> alpha_sq) @@ (I12 :> Neg(beta))
                       @@ (I22 :> One) @@ (I33 :> One),
             inv |-> (I00 :> Neg(One)) @@ (I11 :> One) @@ (I12 :> beta)
                       @@ (I22 :> alpha_sq) @@ (I33 :> One)]
      Range == pmy_block.is..(pmy_block.ie + 1)
  IN  /\ g' = [s \in MetricSlots |->
                 [i \in I1 |-> IF i \in Range THEN Terms(i).cov[s] ELSE g[s][i]]]
      /\ g_inv' = [s \in MetricSlots |->
                 [i \in I1 |-> IF i \in Range THEN Terms(i).inv[s] ELSE g_inv[s][i]]]
      /\ args' = [op |-> "Face1Metric"]
      /\ UNCHANGED <<configVars, outputVars, loopVars, lifeVars, coordVars,
                     providerVars, frameVars, sourceVars>>

Face2Metric(k, j) ==
  LET Terms(i) ==
        LET alpha_sq == metric_face2_i1_[i]
            beta == metric_face2_i2_[i]
        IN  [cov |-> (I00 :> Neg(One)) @@ (I11 :> alpha_sq) @@ (I12 :> Neg(beta))
                       @@ (I22 :> One) @@ (I33 :> One),
             inv |-> (I00 :> Neg(One)) @@ (I11 :> One) @@ (I12 :> beta)
                       @@ (I22 :> alpha_sq) @@ (I33 :> One)]
      Range == pmy_block.is..pmy_block.ie
  IN  /\ g' = [s \in MetricSlots |->
                 [i \in I1 |-> IF i \in Range THEN Terms(i).cov[s] ELSE g[s][i]]]
      /\ g_inv' = [s \in MetricSlots |->
                 [i \in I1 |-> IF i \in Range THEN Terms(i).inv[s] ELSE g_inv[s][i]]]
      /\ args' = [op |-> "Face2Metric"]
      /\ UNCHANGED <<configVars, outputVars, loopVars, lifeVars, coordVars,
                     providerVars, frameVars, sourceVars>>

Face3Metric(k, j) ==
  LET Terms(i) ==
        LET alpha_sq == metric_face3_i1_[i]
            beta == metric_face3_i2_[i]
        IN  [cov |-> (I00 :> Neg(One)) @@ (I11 :> alpha_sq) @@ (I12 :> Neg(beta))
                       @@ (I22 :> One) @@ (I33 :> One),
             inv |-> (I00 :> Neg(One)) @@ (I11 :> One) @@ (I12 :> beta)
                       @@ (I22 :> alpha_sq) @@ (I33 :> One)]
      Range == pmy_block.is..pmy_block.ie
  IN  /\ g' = [s \in MetricSlots |->
                 [i \in I1 |-> IF i \in Range THEN Terms(i).cov[s] ELSE g[s][i]]]
      /\ g_inv' = [s \in MetricSlots |->
                 [i \in I1 |-> IF i \in Range THEN Terms(i).inv[s] ELSE g_inv[s][i]]]
      /\ args' = [op |-> "Face3Metric"]
      /\ UNCHANGED <<configVars, outputVars, loopVars, lifeVars, coordVars,
                     providerVars, frameVars, sourceVars>>

NextMetric ==
  \/ \E k \in I3, j \in I2 : CellMetric(k, j)
  \/ \E k \in I3, j \in I2 : Face1Metric(k, j)
  \/ \E k \in I3, j \in I2 : Face2Metric(k, j)
  \/ \E k \in I3, j \in I2 : Face3Metric(k, j)

SpecMetric == Init /\ [][NextMetric]_vars

---------------------------------------------------------------------------
(* Frame Transformer: primitives to the locally flat frame *)

\* the three velocity slots of an interface state at index i
Vel(w, i) == <<w[IVX][i], w[IVY][i], w[IVZ][i]>>

\* global 4-velocity (u0, u1, u2, u3) of the 3-velocity v in the metric of c
FourVelocity(c, v) ==
  LET u0 == Sqrt(Div(Neg(One),
                     Sum(<<c.g00, Prod(<<c.g11, v[1], v[1]>>),
                           Prod(<<Two, c.g12, v[1], v[2]>>),
                           Prod(<<c.g22, v[2], v[2]>>),
                           Prod(<<c.g33, v[3], v[3]>>)>>)))
  IN  <<u0, Mul(u0, v[1]), Mul(u0, v[2]), Mul(u0, v[3])>>

\* global contravariant magnetic field (bcon0..bcon3) of the 3-field b
BCon(c, u, b) ==
  LET bcon0 == Sum(<<Prod(<<c.g11, b[1], u[2]>>),
                     Mul(c.g12, Add(Mul(b[1], u[3]), Mul(b[2], u[2]))),
                     Prod(<<c.g22, b[2], u[3]>>),
                     Prod(<<c.g33, b[3], u[4]>>)>>)
  IN  <<bcon0,
        Div(Add(b[1], Mul(bcon0, u[2])), u[1]),
        Div(Add(b[2], Mul(bcon0, u[3])), u[1]),
        Div(Add(b[3], Mul(bcon0, u[4])), u[1])>>

\* local 3-velocity component a (2: x, 3: y, 4: z) of the local 4-velocity r
LocalVel(r, a) == Div(r[a], r[1])

\* local magnetic field component a of local 4-velocity r and 4-field rb
LocalField(r, rb, a) == Sub(Mul(r[1], rb[a]), Mul(r[a], rb[1]))

PrimToLocal1Coef(i) ==
  [g00 |-> Neg(One), g11 |-> metric_face1_i1_[i],
   g12 |-> Neg(metric_face1_i2_[i]), g22 |-> One, g33 |-> One,
   mt0 |-> One, mx1 |-> One, my1 |-> Neg(trans_face1_i2_[i]), my2 |-> One,
   mz3 |-> One]

\* (ut, ux, uy, uz) of the global 4-velocity u
Rot1(c, u) ==
  <<Mul(c.mt0, u[1]), Mul(c.mx1, u[2]),
    Add(Mul(c.my1, u[2]), Mul(c.my2, u[3])), Mul(c.mz3, u[4])>>

\* (bcont, bconx, bcony, bconz) of the global 4-field bcon
BRot1(c, bcon) ==
  <<Mul(c.mt0, bcon[1]), Mul(c.mx1, bcon[2]), Mul(c.my2, bcon[3]),
    Mul(c.mz3, bcon[4])>>

\* the values PrimToLocal1 writes at index i
PrimToLocal1At(k, j, i, b1_vals, pl, pr) ==
  LET c == PrimToLocal1Coef(i)
      ul == FourVelocity(c, Vel(pl, i))
      ur == FourVelocity(c, Vel(pr, i))
      rl == Rot1(c, ul)
      rr == Rot1(c, ur)
      b1 == b1_vals[k][j][i]
      rbl == BRot1(c, BCon(c, ul, <<b1, pl[IBY][i], pl[IBZ][i]>>))
      rbr == BRot1(c, BCon(c, ur, <<b1, pr[IBY][i], pr[IBZ][i]>>))
      bxl == LocalField(rl, rbl, 2)
      bxr == LocalField(rr, rbr, 2)
  IN  [left |-> (IVX :> LocalVel(rl, 2)) @@ (IVY :> LocalVel(rl, 3))
                  @@ (IVZ :> LocalVel(rl, 4))
                  @@ (IBY :> LocalField(rl, rbl, 3))
                  @@ (IBZ :> LocalField(rl, rbl, 4)),
       right |-> (IVX :> LocalVel(rr, 2)) @@ (IVY :> LocalVel(rr, 3))
                  @@ (IVZ :> LocalVel(rr, 4))
                  @@ (IBY :> LocalField(rr, rbr, 3))
                  @@ (IBZ :> LocalField(rr, rbr, 4)),
       bnorm |-> Mul(Half, Add(bxl, bxr))]

PrimToLocal2Coef(i) ==
  [g00 |-> Neg(One), g11 |-> metric_face2_i1_[i],
   g12 |-> Neg(metric_face2_i2_[i]), g22 |-> One, g33 |-> One,
   mt0 |-> One, mx2 |-> Div(One, trans_face2_i1_[i]), my3 |-> One,
   mz1 |-> trans_face2_i1_[i],
   mz2 |-> Div(Neg(trans_face2_i2_[i]), trans_face2_i1_[i])]

Rot2(c, u) ==
  <<Mul(c.mt0, u[1]), Mul(c.mx2, u[3]), Mul(c.my3, u[4]),
    Add(Mul(c.mz1, u[2]), Mul(c.mz2, u[3]))>>

BRot2(c, bcon) ==
  <<Mul(c.mt0, bcon[1]), Mul(c.mx2, bcon[3]), Mul(c.my3, bcon[4]),
    Add(Mul(c.mz1, bcon[2]), Mul(c.mz2, bcon[3]))>>

\* the values PrimToLocal2 writes at index i
PrimToLocal2At(k, j, i, b2_vals, pl, pr) ==
  LET c == PrimToLocal2Coef(i)
      ul == FourVelocity(c, Vel(pl, i))
      ur == FourVelocity(c, Vel(pr, i))
      rl == Rot2(c, ul)
      rr == Rot2(c, ur)
      b2 == b2_vals[k][j][i]
      rbl == BRot2(c, BCon(c, ul, <<pl[IBZ][i], b2, pl[IBY][i]>>))
      rbr == BRot2(c, BCon(c, ur, <<pr[IBZ][i], b2, pr[IBY][i]>>))
      byl == LocalField(rl, rbl, 3)
      byr == LocalField(rr, rbr, 3)
  IN  [left |-> (IVY :> LocalVel(rl, 2)) @@ (IVZ :> LocalVel(rl, 3))
                  @@ (IVX :> LocalVel(rl, 4))
                  @@ (IBY :> LocalField(rl, rbl, 4))
                  @@ (IBZ :> LocalField(rl, rbl, 2)),
       right |-> (IVY :> LocalVel(rr, 2)) @@ (IVZ :> LocalVel(rr, 3))
                  @@ (IVX :> LocalVel(rr, 4))
                  @@ (IBY :> LocalField(rr, rbr, 4))
                  @@ (IBZ :> LocalField(rr, rbr, 2)),
       bnorm |-> Mul(Half, Add(byl, byr))]

PrimToLocal3Coef(i) ==
  [g00 |-> Neg(One), g11 |-> metric_face3_i1_[i],
   g12 |-> Neg(metric_face3_i2_[i]), g22 |-> One, g33 |-> One,
   mt0 |-> One, mx3 |-> One, my1 |-> One, mz1 |-> Neg(trans_face3_i2_[i]),
   mz2 |-> One]

Rot3(c, u) ==
  <<Mul(c.mt0, u[1]), Mul(c.mx3, u[4]), Mul(c.my1, u[2]),
    Add(Mul(c.mz1, u[2]), Mul(c.mz2, u[3]))>>

BRot3(c, bcon) ==
  <<Mul(c.mt0, bcon[1]), Mul(c.mx3, bcon[4]), Mul(c.my1, bcon[2]),
    Add(Mul(c.mz1, bcon[2]), Mul(c.mz2, bcon[3]))>>

\* the values PrimToLocal3 writes at index i
PrimToLocal3At(k, j, i, b3_vals, pl, pr) ==
  LET c == PrimToLocal3Coef(i)
      ul == FourVelocity(c, Vel(pl, i))
      ur == FourVelocity(c, Vel(pr, i))
      rl == Rot3(c, ul)
      rr == Rot3(c, ur)
      b3 == b3_vals[k][j][i]
      rbl == BRot3(c, BCon(c, ul, <<pl[IBY][i], pl[IBZ][i], b3>>))
      rbr == BRot3(c, BCon(c, ur, <<pr[IBY][i], pr[IBZ][i], b3>>))
      bzl == LocalField(rl, rbl, 4)
      bzr == LocalField(rr, rbr, 4)
  IN  [left |-> (IVZ :> LocalVel(rl, 2)) @@ (IVX :> LocalVel(rl, 3))
                  @@ (IVY :> LocalVel(rl, 4))
                  @@ (IBY :> LocalField(rl, rbl, 2))
                  @@ (IBZ :> LocalField(rl, rbl, 3)),
       right |-> (IVZ :> LocalVel(rr, 2)) @@ (IVX :> LocalVel(rr, 3))
                  @@ (IVY :> LocalVel(rr, 4))
                  @@ (IBY :> LocalField(rr, rbr, 3))
                  @@ (IBZ :> LocalField(rr, rbr, 4)),
       bnorm |-> Mul(Half, Add(bzl, bzr))]

\* the slots of a call that transforms the fields whether enabled or not
WrittenSlots_always == {IVX, IVY, IVZ, IBY, IBZ}

\* the slots a PrimToLocal call overwrites
WrittenSlots == IF MAGNETIC_FIELDS_ENABLED THEN {IVX, IVY, IVZ, IBY, IBZ}
                ELSE {IVX, IVY, IVZ}

\* the interface state w with the slots of new[i] overwritten on the range
Overwrite(w, range, new) ==
  [s \in PrimSlots |->
     [i \in I1 |-> IF i \in range /\ s \in WrittenSlots THEN new[i][s]
                   ELSE w[s][i]]]

PrimToLocal1(k, j, b1_vals, pl, pr, bx) ==
  LET range == pmy_block.is..(pmy_block.ie + 1)
  IN  \E new \in {[i \in range |-> PrimToLocal1At(k, j, i, b1_vals, pl, pr)]} :
      /\ prim_left' = Overwrite(pl, range, [i \in range |-> new[i].left])
      /\ prim_right' = Overwrite(pr, range, [i \in range |-> new[i].right])
      /\ bnorm' = [i \in I1 |->
                     IF i \in range /\ MAGNETIC_FIELDS_ENABLED
                     THEN new[i].bnorm ELSE bx[i]]
      /\ args' = [op |-> "PrimToLocal1", k |-> k, j |-> j, b_vals |-> b1_vals,
                  prim_left |-> pl, prim_right |-> pr, bnorm |-> bx]
      /\ UNCHANGED <<configVars, outputVars, loopVars, lifeVars, coordVars,
                     providerVars, metricVars, flux, sourceVars>>

PrimToLocal2(k, j, b2_vals, pl, pr, by) ==
  LET range == pmy_block.is..pmy_block.ie
  IN  \E new \in {[i \in range |-> PrimToLocal2At(k, j, i, b2_vals, pl, pr)]} :
      /\ prim_left' = Overwrite(pl, range, [i \in range |-> new[i].left])
      /\ prim_right' = Overwrite(pr, range, [i \in range |-> new[i].right])
      /\ bnorm' = [i \in I1 |->
                     IF i \in range /\ MAGNETIC_FIELDS_ENABLED
                     THEN new[i].bnorm ELSE by[i]]
      /\ args' = [op |-> "PrimToLocal2", k |-> k, j |-> j, b_vals |-> b2_vals,
                  prim_left |-> pl, prim_right |-> pr, bnorm |-> by]
      /\ UNCHANGED <<configVars, outputVars, loopVars, lifeVars, coordVars,
                     providerVars, metricVars, flux, sourceVars>>

PrimToLocal3(k, j, b3_vals, pl, pr, bz) ==
  LET range == pmy_block.is..pmy_block.ie
  IN  \E new \in {[i \in range |-> PrimToLocal3At(k, j, i, b3_vals, pl, pr)]} :
      /\ prim_left' = Overwrite(pl, range, [i \in range |-> new[i].left])
      /\ prim_right' = Overwrite(pr, range, [i \in range |-> new[i].right])
      /\ bnorm' = [i \in I1 |->
                     IF i \in range /\ MAGNETIC_FIELDS_ENABLED
                     THEN new[i].bnorm ELSE bz[i]]
      /\ args' = [op |-> "PrimToLocal3", k |-> k, j |-> j, b_vals |-> b3_vals,
                  prim_left |-> pl, prim_right |-> pr, bnorm |-> bz]
      /\ UNCHANGED <<configVars, outputVars, loopVars, lifeVars, coordVars,
                     providerVars, metricVars, flux, sourceVars>>

---------------------------------------------------------------------------
(* Frame Transformer: fluxes to the global frame *)

FluxToGlobal1Coef(i) ==
  [g00 |-> Neg(One), g11 |-> metric_face1_i1_[i],
   g12 |-> Neg(metric_face1_i2_[i]), g22 |-> One, g33 |-> One,
   m0t |-> One, m1x |-> One, m2x |-> trans_face1_i2_[i], m2y |-> One,
   m3z |-> One]

\* FluxToGlobal1At leaving the energy flux with its index raised
FluxToGlobal1At_raised(i, fl) ==
  LET c == FluxToGlobal1Coef(i)
      dx == fl[IDN][i]
      txt == fl[IEN][i]
      txx == fl[IM1][i]
      txy == fl[IM2][i]
      txz == fl[IM3][i]
      tcon_10 == Prod(<<c.m1x, c.m0t, txt>>)
      tcon_11 == Prod(<<c.m1x, c.m1x, txx>>)
      tcon_12 == Mul(c.m1x, Add(Mul(c.m2x, txx), Mul(c.m2y, txy)))
      tcon_13 == Prod(<<c.m1x, c.m3z, txz>>)
      fyx == fl[IBY][i]
      fzx == fl[IBZ][i]
  IN  (IDN :> Mul(c.m1x, dx)) @@ (IEN :> tcon_10)
        @@ (IM1 :> Add(Mul(c.g11, tcon_11), Mul(c.g12, tcon_12)))
        @@ (IM2 :> Add(Mul(c.g12, tcon_11), Mul(c.g22, tcon_12)))
        @@ (IM3 :> Mul(c.g33, tcon_13))
        @@ (IBY :> Prod(<<c.m1x, c.m2y, fyx>>))
        @@ (IBZ :> Prod(<<c.m1x, c.m3z, fzx>>))

\* the values FluxToGlobal1 writes at index i
FluxToGlobal1At(i, fl) ==
  LET c == FluxToGlobal1Coef(i)
      dx == fl[IDN][i]
      txt == fl[IEN][i]
      txx == fl[IM1][i]
      txy == fl[IM2][i]
      txz == fl[IM3][i]
      tcon_10 == Prod(<<c.m1x, c.m0t, txt>>)
      tcon_11 == Prod(<<c.m1x, c.m1x, txx>>)
      tcon_12 == Mul(c.m1x, Add(Mul(c.m2x, txx), Mul(c.m2y, txy)))
      tcon_13 == Prod(<<c.m1x, c.m3z, txz>>)
      fyx == fl[IBY][i]
      fzx == fl[IBZ][i]
  IN  (IDN :> Mul(c.m1x, dx)) @@ (IEN :> Mul(c.g00, tcon_10))
        @@ (IM1 :> Add(Mul(c.g11, tcon_11), Mul(c.g12, tcon_12)))
        @@ (IM2 :> Add(Mul(c.g12, tcon_11), Mul(c.g22, tcon_12)))
        @@ (IM3 :> Mul(c.g33, tcon_13))
        @@ (IBY :> Prod(<<c.m1x, c.m2y, fyx>>))
        @@ (IBZ :> Prod(<<c.m1x, c.m3z, fzx>>))

\* FluxToGlobal2Coef with the sign of the shear coefficient m1x flipped
FluxToGlobal2Coef_sign(i) ==
  [g00 |-> Neg(One), g11 |-> metric_face2_i1_[i],
   g12 |-> Neg(metric_face2_i2_[i]), g22 |-> One, g33 |-> One,
   m0t |-> One, m1x |-> Div(Neg(trans_face2_i2_[i]), trans_face2_i1_[i]),
   m1z |-> Div(One, trans_face2_i1_[i]), m2x |-> trans_face2_i1_[i],
   m3y |-> One]

FluxToGlobal2Coef(i) ==
  [g00 |-> Neg(One), g11 |-> metric_face2_i1_[i],
   g12 |-> Neg(metric_face2_i2_[i]), g22 |-> One, g33 |-> One,
   m0t |-> One, m1x |-> Div(trans_face2_i2_[i], trans_face2_i1_[i]),
   m1z |-> Div(One, trans_face2_i1_[i]), m2x |-> trans_face2_i1_[i],
   m3y |-> One]

\* FluxToGlobal2At reading the local momentum fluxes from the slots of FluxToGlobal1
FluxToGlobal2At_slots(i, fl) ==
  LET c == FluxToGlobal2Coef(i)
      dx == fl[IDN][i]
      txt == fl[IEN][i]
      txx == fl[IM1][i]
      txy == fl[IM2][i]
      txz == fl[IM3][i]
      tcon_20 == Prod(<<c.m2x, c.m0t, txt>>)
      tcon_21 == Mul(c.m2x, Add(Mul(c.m1x, txx), Mul(c.m1z, txz)))
      tcon_22 == Prod(<<c.m2x, c.m2x, txx>>)
      tcon_23 == Prod(<<c.m2x, c.m3y, txy>>)
      fyx == fl[IBY][i]
      fzx == fl[IBZ][i]
  IN  (IDN :> Mul(c.m2x, dx)) @@ (IEN :> Mul(c.g00, tcon_20))
        @@ (IM1 :> Add(Mul(c.g11, tcon_21), Mul(c.g12, tcon_22)))
        @@ (IM2 :> Add(Mul(c.g12, tcon_21), Mul(c.g22, tcon_22)))
        @@ (IM3 :> Mul(c.g33, tcon_23))
        @@ (IBY :> Prod(<<c.m3y, c.m2x, fyx>>))
        @@ (IBZ :> Prod(<<c.m2x, c.m1z, fzx>>))

\* the values FluxToGlobal2 writes at index i
FluxToGlobal2At(i, fl) ==
  LET c == FluxToGlobal2Coef(i)
      dx == fl[IDN][i]
      txt == fl[IEN][i]
      txx == fl[IM2][i]
      txy == fl[IM3][i]
      txz == fl[IM1][i]
      tcon_20 == Prod(<<c.m2x, c.m0t, txt>>)
      tcon_21 == Mul(c.m2x, Add(Mul(c.m1x, txx), Mul(c.m1z, txz)))
      tcon_22 == Prod(<<c.m2x, c.m2x, txx>>)
      tcon_23 == Prod(<<c.m2x, c.m3y, txy>>)
      fyx == fl[IBY][i]
      fzx == fl[IBZ][i]
  IN  (IDN :> Mul(c.m2x, dx)) @@ (IEN :> Mul(c.g00, tcon_20))
        @@ (IM1 :> Add(Mul(c.g11, tcon_21), Mul(c.g12, tcon_22)))
        @@ (IM2 :> Add(Mul(c.g12, tcon_21), Mul(c.g22, tcon_22)))
        @@ (IM3 :> Mul(c.g33, tcon_23))
        @@ (IBY :> Prod(<<c.m3y, c.m2x, fyx>>))
        @@ (IBZ :> Prod(<<c.m2x, c.m1z, fzx>>))

FluxToGlobal3Coef(i) ==
  [g00 |-> Neg(One), g11 |-> metric_face3_i1_[i],
   g12 |-> Neg(metric_face3_i2_[i]), g22 |-> One, g33 |-> One,
   m0t |-> One, m1y |-> One, m2y |-> trans_face3_i2_[i], m2z |-> One,
   m3x |-> One]

\* the values FluxToGlobal3 writes at index i
FluxToGlobal3At(i, fl) ==
  LET c == FluxToGlobal3Coef(i)
      dx == fl[IDN][i]
      txt == fl[IEN][i]
      txx == fl[IM3][i]
      txy == fl[IM1][i]
      txz == fl[IM2][i]
      tcon_30 == Prod(<<c.m3x, c.m0t, txt>>)
      tcon_31 == Prod(<<c.m3x, c.m1y, txy>>)
      tcon_32 == Mul(c.m3x, Add(Mul(c.m2y, txy), Mul(c.m2z, txz)))
      tcon_33 == Prod(<<c.m3x, c.m3x, txx>>)
      fyx == fl[IBY][i]
      fzx == fl[IBZ][i]
  IN  (IDN :> Mul(c.m3x, dx)) @@ (IEN :> Mul(c.g00, tcon_30))
        @@ (IM1 :> Add(Mul(c.g11, tcon_31), Mul(c.g12, tcon_32)))
        @@ (IM2 :> Add(Mul(c.g12, tcon_31), Mul(c.g22, tcon_32)))
        @@ (IM3 :> Mul(c.g33, tcon_33))
        @@ (IBY :> Prod(<<c.m1y, c.m3x, fyx>>))
        @@ (IBZ :> Mul(c.m3x, Add(Mul(c.m2y, fyx), Mul(c.m2z, fzx))))

\* the slots a FluxToGlobal call overwrites
FluxSlots == IF MAGNETIC_FIELDS_ENABLED THEN PrimSlots ELSE HydroSlots

\* the flux array fl with the slots of new[i] overwritten on the range
OverwriteFlux(fl, range, new) ==
  [s \in PrimSlots |->
     [i \in I1 |-> IF i \in range /\ s \in FluxSlots THEN new[i][s]
                   ELSE fl[s][i]]]

FluxToGlobal1(k, j, fl) ==
  LET range == pmy_block.is..(pmy_block.ie + 1)
  IN  /\ flux' = OverwriteFlux(fl, range, [i \in range |-> FluxToGlobal1At(i, fl)])
      /\ args' = [op |-> "FluxToGlobal1", flux |-> fl]
      /\ UNCHANGED <<configVars, outputVars, loopVars, lifeVars, coordVars,
                     providerVars, metricVars, prim_left, prim_right, bnorm,
                     sourceVars>>

FluxToGlobal2(k, j, fl) ==
  LET range == pmy_block.is..pmy_block.ie
  IN  /\ flux' = OverwriteFlux(fl, range, [i \in range |-> FluxToGlobal2At(i, fl)])
      /\ args' = [op |-> "FluxToGlobal2", flux |-> fl]
      /\ UNCHANGED <<configVars, outputVars, loopVars, lifeVars, coordVars,
                     providerVars, metricVars, prim_left, prim_right, bnorm,
                     sourceVars>>

FluxToGlobal3(k, j, fl) ==
  LET range == pmy_block.is..pmy_block.ie
  IN  /\ flux' = OverwriteFlux(fl, range, [i \in range |-> FluxToGlobal3At(i, fl)])
      /\ args' = [op |-> "FluxToGlobal3", flux |-> fl]
      /\ UNCHANGED <<configVars, outputVars, loopVars, lifeVars, coordVars,
                     providerVars, metricVars, prim_left, prim_right, bnorm,
                     sourceVars>>

---------------------------------------------------------------------------
(* The states and fluxes the flux solver hands to the Frame Transformer *)

\* local-frame velocities with a rational Lorentz factor
Va == <<R(3, 5), Zero, Zero>>

Vb == <<R(2, 9), R(4, 9), R(5, 9)>>

\* [wl, wr: local velocities; bl, br: tangential fields; bn: normal field]
MixedCase ==
  [wl |-> Va, wr |-> Vb, bl |-> <<One, Two>>, br |-> <<R(3, 1), R(-1, 1)>>,
   bn |-> 2]

EqualCase ==
  [wl |-> Vb, wr |-> Vb, bl |-> <<One, Two>>, br |-> <<One, Two>>, bn |-> 1]

\* a left state faster than light next to a subluminal right state
FastCase ==
  [wl |-> <<Two, Zero, Zero>>, wr |-> Va, bl |-> <<One, Two>>,
   br |-> <<R(3, 1), R(-1, 1)>>, bn |-> 1]

PrimCases == {MixedCase, EqualCase, FastCase}

\* the global interface state whose velocity is w in the frame of shear beta
InterfaceState(w, bt, beta) ==
  [s \in PrimSlots |->
     [i \in I1 |->
        IF s = IDN THEN One
        ELSE IF s = IEN THEN Half
        ELSE IF s = IVX THEN w[1]
        ELSE IF s = IVY THEN Add(w[2], Mul(beta[i], w[1]))
        ELSE IF s = IVZ THEN w[3]
        ELSE IF s = IBY THEN bt[1]
        ELSE bt[2]]]

\* face-centered normal fields of the whole block
BVals(bn) == [k \in I3 |-> [j \in I2 |-> [i \in I1 |-> R(bn * (1 + ((i + j + k) % 3)), 1)]]]

\* local fluxes: distinct in every slot, and varying along the row
FluxCase ==
  [s \in PrimSlots |->
     [i \in I1 |->
        IF s = IDN THEN R(2 + i, 1)
        ELSE IF s = IEN THEN R(3, 1)
        ELSE IF s = IM1 THEN R(5, 1)
        ELSE IF s = IM2 THEN R(7 + i, 1)
        ELSE IF s = IM3 THEN R(11, 1)
        ELSE IF s = IBY THEN R(13, 1)
        ELSE R(17, 1)]]

\* a normal-field buffer holding stale values
Stale == [i \in I1 |-> R(-1, 1)]

\* the rows the flux solver sweeps
Rows == (pmy_block.ks..pmy_block.ke) \X (pmy_block.js..pmy_block.je)

NextPrim ==
  \/ \E r \in Rows, c \in PrimCases :
       \E b_vals \in {BVals(c.bn)},
          pl \in {InterfaceState(c.wl, c.bl, metric_face1_i2_)},
          pr \in {InterfaceState(c.wr, c.br, metric_face1_i2_)} :
         PrimToLocal1(r[1], r[2], b_vals, pl, pr, Stale)
  \/ \E r \in Rows, c \in PrimCases :
       \E b_vals \in {BVals(c.bn)},
          pl \in {InterfaceState(c.wl, c.bl, metric_face2_i2_)},
          pr \in {InterfaceState(c.wr, c.br, metric_face2_i2_)} :
         PrimToLocal2(r[1], r[2], b_vals, pl, pr, Stale)
  \/ \E r \in Rows, c \in PrimCases :
       \E b_vals \in {BVals(c.bn)},
          pl \in {InterfaceState(c.wl, c.bl, metric_face3_i2_)},
          pr \in {InterfaceState(c.wr, c.br, metric_face3_i2_)} :
         PrimToLocal3(r[1], r[2], b_vals, pl, pr, Stale)

\* the construction with the amplitude and wavenumber the source fixes
InitSinusoidal == Init /\ A = R(10, 1) /\ K = R(1, 10)

SpecPrim == InitSinusoidal /\ [][NextPrim]_vars

NextFlux ==
  \/ \E r \in Rows, fl \in {FluxCase} : FluxToGlobal1(r[1], r[2], fl)
  \/ \E r \in Rows, fl \in {FluxCase} : FluxToGlobal2(r[1], r[2], fl)
  \/ \E r \in Rows, fl \in {FluxCase} : FluxToGlobal3(r[1], r[2], fl)

\* one sweep's calls: states to the local frame, fluxes back to the global one
NextFrame ==
  \/ \E r \in Rows, c \in {MixedCase} :
       \E b_vals \in {BVals(c.bn)},
          pl \in {InterfaceState(c.wl, c.bl, metric_face1_i2_)},
          pr \in {InterfaceState(c.wr, c.br, metric_face1_i2_)} :
         PrimToLocal1(r[1], r[2], b_vals, pl, pr, Stale)
  \/ \E r \in Rows, c \in {MixedCase} :
       \E b_vals \in {BVals(c.bn)},
          pl \in {InterfaceState(c.wl, c.bl, metric_face2_i2_)},
          pr \in {InterfaceState(c.wr, c.br, metric_face2_i2_)} :
         PrimToLocal2(r[1], r[2], b_vals, pl, pr, Stale)
  \/ \E r \in Rows, c \in {MixedCase} :
       \E b_vals \in {BVals(c.bn)},
          pl \in {InterfaceState(c.wl, c.bl, metric_face3_i2_)},
          pr \in {InterfaceState(c.wr, c.br, metric_face3_i2_)} :
         PrimToLocal3(r[1], r[2], b_vals, pl, pr, Stale)
  \/ NextFlux

SpecFrame == InitSinusoidal /\ [][NextFrame]_vars

----------------------------------------------------------------------------
(* Frame Transformer: the row loops, one iteration at a time *)

\* the indices the loop of PrimToLocal1 and of FluxToGlobal1 visits
LoopRange == pmy_block.is..(pmy_block.ie + 1)

\* the position after the iteration i of the loop of op
AfterIteration(op, i) ==
  [sweep EXCEPT ![op].todo = @ \ {i},
                ![op].pc = IF sweep[op].todo = {i} THEN "done" ELSE "loop"]

\* PrimToLocal1 is called: the caller's arrays are bound, the loop starts
PrimToLocal1Enter(k, j, b1_vals, pl, pr, bx) ==
  /\ sweep["PrimToLocal1"].pc # "loop"
  /\ prim_left' = pl
  /\ prim_right' = pr
  /\ bnorm' = bx
  /\ args' = [op |-> "PrimToLocal1", k |-> k, j |-> j, b_vals |-> b1_vals,
              prim_left |-> pl, prim_right |-> pr, bnorm |-> bx]
  /\ sweep' = [sweep EXCEPT !["PrimToLocal1"] =
                 [pc |-> "loop", todo |-> LoopRange, call |-> args']]
  /\ UNCHANGED <<configVars, outputVars, lifeVars, coordVars, providerVars,
                 metricVars, flux, sourceVars>>

\* the body of the loop of PrimToLocal1 for the index i
PrimToLocal1Iteration(i) ==
  LET call == sweep["PrimToLocal1"].call
  IN  /\ sweep["PrimToLocal1"].pc = "loop"
      /\ i \in sweep["PrimToLocal1"].todo
      /\ \E new \in {PrimToLocal1At(call.k, call.j, i, call.b_vals,
                                    prim_left, prim_right)} :
           /\ prim_left' = Overwrite(prim_left, {i}, [n \in {i} |-> new.left])
           /\ prim_right' = Overwrite(prim_right, {i}, [n \in {i} |-> new.right])
           /\ bnorm' = [bnorm EXCEPT ![i] = IF MAGNETIC_FIELDS_ENABLED
                                             THEN new.bnorm ELSE @]
      /\ sweep' = AfterIteration("PrimToLocal1", i)
      /\ UNCHANGED <<configVars, outputVars, lifeVars, coordVars,
                     providerVars, metricVars, flux, sourceVars, args>>

\* FluxToGlobal1 is called: the caller's array is bound, the loop starts
FluxToGlobal1Enter(k, j, fl) ==
  /\ sweep["FluxToGlobal1"].pc # "loop"
  /\ flux' = fl
  /\ args' = [op |-> "FluxToGlobal1", flux |-> fl]
  /\ sweep' = [sweep EXCEPT !["FluxToGlobal1"] =
                 [pc |-> "loop", todo |-> LoopRange, call |-> args']]
  /\ UNCHANGED <<configVars, outputVars, lifeVars, coordVars, providerVars,
                 metricVars, prim_left, prim_right, bnorm, sourceVars>>

\* the loop body of FluxToGlobal1 taking its inputs from the index before i
FluxToGlobal1Iteration_before(i) ==
  LET before == IF i - 1 \in LoopRange THEN i - 1 ELSE i
      shifted == [s \in PrimSlots |-> [n \in I1 |-> flux[s][before]]]
  IN  /\ sweep["FluxToGlobal1"].pc = "loop"
      /\ i \in sweep["FluxToGlobal1"].todo
      /\ flux' = OverwriteFlux(flux, {i},
                               [n \in {i} |-> FluxToGlobal1At(i, shifted)])
      /\ sweep' = AfterIteration("FluxToGlobal1", i)
      /\ UNCHANGED <<configVars, outputVars, lifeVars, coordVars,
                     providerVars, metricVars, prim_left, prim_right, bnorm,
                     sourceVars, args>>

\* the body of the loop of FluxToGlobal1 for the index i
FluxToGlobal1Iteration(i) ==
  /\ sweep["FluxToGlobal1"].pc = "loop"
  /\ i \in sweep["FluxToGlobal1"].todo
  /\ flux' = OverwriteFlux(flux, {i}, [n \in {i} |-> FluxToGlobal1At(i, flux)])
  /\ sweep' = AfterIteration("FluxToGlobal1", i)
  /\ UNCHANGED <<configVars, outputVars, lifeVars, coordVars, providerVars,
                 metricVars, prim_left, prim_right, bnorm, sourceVars, args>>

\* two threads sweep the first and the last row of one block: one makes the
\* interface states local, one returns fluxes to the global frame; the
\* iterations of the two loops run in any order
NextLoop ==
  \/ \E r \in {<<pmy_block.ks, pmy_block.js>>}, c \in {MixedCase} :
       \E b_vals \in {BVals(c.bn)},
          pl \in {InterfaceState(c.wl, c.bl, metric_face1_i2_)},
          pr \in {InterfaceState(c.wr, c.br, metric_face1_i2_)} :
         PrimToLocal1Enter(r[1], r[2], b_vals, pl, pr, Stale)
  \/ \E i \in I1 : PrimToLocal1Iteration(i)
  \/ \E r \in {<<pmy_block.ke, pmy_block.je>>}, fl \in {FluxCase} :
       FluxToGlobal1Enter(r[1], r[2], fl)
  \/ \E i \in I1 : FluxToGlobal1Iteration(i)

SpecLoop == InitSinusoidal /\ [][NextLoop]_vars

---------------------------------------------------------------------------
(* Source Term Module *)

\* the cells CoordinateSourceTerms sweeps
Interior(k, j, i) ==
  /\ k \in pmy_block.ks..pmy_block.ke
  /\ j \in pmy_block.js..pmy_block.je
  /\ i \in pmy_block.is..pmy_block.ie

\* the metric and three-velocity CoordinateSourceTerms reads at cell (k, j, i)
SourceState(pr, k, j, i) ==
  [g00 |-> Neg(One), g11 |-> metric_cell_i1_[i], g12 |-> metric_cell_i2_[i],
   g22 |-> One, g33 |-> One,
   v1 |-> pr[IVX][k][j][i], v2 |-> pr[IVY][k][j][i], v3 |-> pr[IVZ][k][j][i]]

\* the normalization bracket of the velocity v in the metric m
Bracket(m, v) ==
  Sum(<<m.g00, Prod(<<m.g11, v.v1, v.v1>>), Prod(<<Two, m.g12, v.v1, v.v2>>),
        Prod(<<m.g22, v.v2, v.v2>>), Prod(<<m.g33, v.v3, v.v3>>)>>)

\* x < y for finite reals
Less(x, y) == x.n * y.d < y.n * x.d

\* the contravariant four-velocity CoordinateSourceTerms reconstructs
SourceFourVelocity(pr, k, j, i) ==
  LET c == SourceState(pr, k, j, i)
      u0 == Sqrt(Div(Neg(One), Bracket(c, c)))
  IN  [u0 |-> u0, u1 |-> Mul(u0, c.v1), u2 |-> Mul(u0, c.v2)]

\* a source term built from the energy density T^00 instead of T^1_2
SourceAt_time(dt, gamma_adi, pr, k, j, i) ==
  LET gamma_adi_red == Div(gamma_adi, Sub(gamma_adi, One))
      gamma_211 == src_terms_i1_[i]
      rho == pr[IDN][k][j][i]
      pgas == pr[IEN][k][j][i]
      u == SourceFourVelocity(pr, k, j, i)
      rho_h == Add(rho, Mul(gamma_adi_red, pgas))
      t00 == Prod(<<rho_h, u.u0, u.u0>>)
      s1 == Mul(gamma_211, t00)
  IN  Mul(dt, s1)

\* dt * s1 at cell (k, j, i) for the primitives pr
SourceAt(dt, gamma_adi, pr, k, j, i) ==
  LET gamma_adi_red == Div(gamma_adi, Sub(gamma_adi, One))
      c == SourceState(pr, k, j, i)
      gamma_211 == src_terms_i1_[i]
      rho == pr[IDN][k][j][i]
      pgas == pr[IEN][k][j][i]
      u == SourceFourVelocity(pr, k, j, i)
      u_2 == Add(Mul(c.g12, u.u1), Mul(c.g22, u.u2))
      rho_h == Add(rho, Mul(gamma_adi_red, pgas))
      t1_2 == Prod(<<rho_h, u.u1, u_2>>)
      s1 == Mul(gamma_211, t1_2)
  IN  Mul(dt, s1)

\* CoordinateSourceTerms sweeping the ghost cells too
CoordinateSourceTerms_ghost(dt, gamma_adi, pr, cn) ==
  /\ cons' = [s \in HydroSlots |-> [k \in I3 |-> [j \in I2 |-> [i \in I1 |->
                IF s = IM1
                THEN Add(cn[s][k][j][i], SourceAt(dt, gamma_adi, pr, k, j, i))
                ELSE cn[s][k][j][i]]]]]
  /\ prim' = pr
  /\ args' = [op |-> "CoordinateSourceTerms", dt |-> dt,
              gamma_adi |-> gamma_adi, prim |-> pr, cons |-> cn]
  /\ UNCHANGED <<configVars, outputVars, loopVars, lifeVars, coordVars,
                 providerVars, metricVars, frameVars>>

CoordinateSourceTerms(dt, gamma_adi, pr, cn) ==
  /\ cons' = [s \in HydroSlots |-> [k \in I3 |-> [j \in I2 |-> [i \in I1 |->
                IF s = IM1 /\ Interior(k, j, i)
                THEN Add(cn[s][k][j][i], SourceAt(dt, gamma_adi, pr, k, j, i))
                ELSE cn[s][k][j][i]]]]]
  /\ prim' = pr
  /\ args' = [op |-> "CoordinateSourceTerms", dt |-> dt,
              gamma_adi |-> gamma_adi, prim |-> pr, cons |-> cn]
  /\ UNCHANGED <<configVars, outputVars, loopVars, lifeVars, coordVars,
                 providerVars, metricVars, frameVars>>

\* primitives of the whole block, ghost cells included, whose velocity is w
\* in the frame the source terms normalise the four-velocity in
PrimGrid(w) ==
  [s \in HydroSlots |-> [k \in I3 |-> [j \in I2 |-> [i \in I1 |->
     IF s = IDN THEN R(1 + ((i + j + k) % 2), 1)
     ELSE IF s = IEN THEN Half
     ELSE IF s = IVX THEN w[1]
     ELSE IF s = IVY THEN Sub(w[2], Mul(metric_cell_i2_[i], w[1]))
     ELSE w[3]]]]]

\* conserved variables of the whole block: nowhere zero, a value per slot
ConsGrid(m) ==
  [s \in HydroSlots |-> [k \in I3 |-> [j \in I2 |-> [i \in I1 |->
     IF s = IDN THEN R(m, 1)
     ELSE IF s = IEN THEN R(m + 1, 1)
     ELSE IF s = IM1 THEN R(m + 2 + i, 1)
     ELSE IF s = IM2 THEN R(m + 3 + j, 1)
     ELSE R(m + 4 + k, 1)]]]]

\* time steps of the integrator's half and full stages
TimeSteps == {Half, One}

\* ratios of specific heats of the equation of state
Gammas == {R(5, 3)}

\* a velocity faster than light in every chart of the model
Vc == <<Two, Zero, Zero>>

\* primitives whose cells alternate between rest and the velocity w
PrimGridPatchy(w) ==
  [s \in HydroSlots |-> [k \in I3 |-> [j \in I2 |-> [i \in I1 |->
     IF s \in {IVX, IVY, IVZ} /\ (i + j + k) % 2 = 1 THEN Zero
     ELSE PrimGrid(w)[s][k][j][i]]]]]

\* the primitive arrays the integrator passes
SourcePrims == {PrimGrid(Va), PrimGrid(Vb), PrimGrid(Vc), PrimGridPatchy(Vb)}

NextSource ==
  \E dt \in TimeSteps, gamma_adi \in Gammas, pr \in SourcePrims, m \in {1, 2} :
    \E cn \in {ConsGrid(m)} :
      CoordinateSourceTerms(dt, gamma_adi, pr, cn)

SpecSource == Init /\ [][NextSource]_vars

\* the integrator adds source terms, its diagnostics ask for the cell metric
NextSourceMetric ==
  \/ \E dt \in TimeSteps, gamma_adi \in Gammas,
        pr \in {PrimGrid(Vb), PrimGridPatchy(Vb)}, cn \in {ConsGrid(1)} :
       CoordinateSourceTerms(dt, gamma_adi, pr, cn)
  \/ \E k \in {pmy_block.ks}, j \in {pmy_block.js} : CellMetric(k, j)

SpecSourceMetric == Init /\ [][NextSourceMetric]_vars

----------------------------------------------------------------------------
(* The whole Coordinates object *)

DistanceBetweenPoints(a1, a2, a3, bx, by, bz) ==
  LET ax == a1
      ay == Sub(a2, Mul(A, SinSample(Mul(K, a1))))
      az == a3
  IN  Sqrt(Sum(<<SQR(Sub(ax, bx)), SQR(Sub(ay, by)), SQR(Sub(az, bz))>>))

\* pairs of points: a on a face or a cell centre of the block, b either the
\* Minkowski image of a or 3 and 4 away from it along x and y
PointPairs ==
  {<<a1, Zero, Zero,
     Add(a1, Mul(t, R(3, 1))),
     Sub(Mul(t, Four), Mul(A, SinSample(Mul(K, a1)))), Zero>> :
     a1 \in {pmy_block.x1f[pmy_block.is], pmy_block.x1v[pmy_block.is]},
     t \in {Zero, One}}

\* a call of DistanceBetweenPoints and what it returns
DistanceCall(p) ==
  /\ args' = [op |-> "DistanceBetweenPoints", points |-> p,
              result |-> DistanceBetweenPoints(p[1], p[2], p[3], p[4], p[5], p[6])]
  /\ UNCHANGED <<configVars, outputVars, loopVars, lifeVars, coordVars,
                 providerVars, metricVars, frameVars, sourceVars>>

NextDistance == \E p \in PointPairs : DistanceCall(p)

\* the caller's arrays are as allocated and the previous result is released
Fresh ==
  /\ args.op \in {"Coordinates", "NewAthenaArray"}
  /\ volumes = [i \in I1 |-> Zero]
  /\ areas = [i \in I1 |-> Zero]
  /\ lengths = [i \in I1 |-> Zero]
  /\ g = NewAthenaArray(MetricSlots)
  /\ g_inv = NewAthenaArray(MetricSlots)
  /\ prim_left = NewAthenaArray(PrimSlots)
  /\ prim_right = NewAthenaArray(PrimSlots)
  /\ bnorm = [i \in I1 |-> Zero]
  /\ flux = NewAthenaArray(PrimSlots)
  /\ prim = [s \in HydroSlots |-> [k \in I3 |-> [j \in I2 |-> [i \in I1 |-> Zero]]]]
  /\ cons = [s \in HydroSlots |-> [k \in I3 |-> [j \in I2 |-> [i \in I1 |-> Zero]]]]

\* the caller releases its arrays and allocates them anew
Reallocate ==
  /\ volumes' = [i \in I1 |-> Zero]
  /\ areas' = [i \in I1 |-> Zero]
  /\ lengths' = [i \in I1 |-> Zero]
  /\ g' = NewAthenaArray(MetricSlots)
  /\ g_inv' = NewAthenaArray(MetricSlots)
  /\ prim_left' = NewAthenaArray(PrimSlots)
  /\ prim_right' = NewAthenaArray(PrimSlots)
  /\ bnorm' = [i \in I1 |-> Zero]
  /\ flux' = NewAthenaArray(PrimSlots)
  /\ prim' = [s \in HydroSlots |-> [k \in I3 |-> [j \in I2 |-> [i \in I1 |-> Zero]]]]
  /\ cons' = [s \in HydroSlots |-> [k \in I3 |-> [j \in I2 |-> [i \in I1 |-> Zero]]]]
  /\ args' = [op |-> "NewAthenaArray"]
  /\ UNCHANGED <<configVars, outputVars, loopVars, lifeVars, coordVars>>

\* every function of the object, called in any order any number of times;
\* each call gets arrays allocated for it, so that a behaviour is a sequence
\* of calls and not a combination of the arrays the earlier calls left
NextCoordinates ==
  \/ Fresh /\ NextVolume
  \/ Fresh /\ NextArea
  \/ Fresh /\ NextLength
  \/ Fresh /\ NextWidth
  \/ Fresh /\ NextMetric
  \/ Fresh /\ NextPrim
  \/ Fresh /\ NextFlux
  \/ Fresh /\ NextSource
  \/ Fresh /\ NextDistance
  \/ Reallocate

SpecCoordinates == Init /\ [][NextCoordinates]_vars

\* the caller makes its most recent provider call once more, with the same
\* arguments and the array the call filled
Repeat ==
  \/ /\ args.op = "CellVolume"
     /\ CellVolume(args.k, args.j, args.il, args.iu, volumes)
  \/ /\ args.op = "Face1Area"
     /\ Face1Area(args.k, args.j, args.il, args.iu, areas)
  \/ /\ args.op = "Face2Area"
     /\ Face2Area(args.k, pmy_block.js, args.il, args.iu, areas)
  \/ /\ args.op = "Face3Area"
     /\ Face3Area(pmy_block.ks, args.j, args.il, args.iu, areas)
  \/ /\ args.op = "Edge1Length"
     /\ Edge1Length(pmy_block.ks, pmy_block.js, args.il, args.iu, lengths)
  \/ /\ args.op = "Edge2Length"
     /\ Edge2Length(pmy_block.ks, args.j, args.il, args.iu, lengths)
  \/ /\ args.op = "Edge3Length"
     /\ Edge3Length(args.k, pmy_block.js, args.il, args.iu, lengths)

\* the volume, area and length providers, each called on an array allocated
\* for it and then any number of times again
NextProviders ==
  \/ Fresh /\ NextVolume
  \/ Fresh /\ NextArea
  \/ Fresh /\ NextLength
  \/ Repeat
  \/ Reallocate

SpecProviders == Init /\ [][NextProviders]_vars

----------------------------------------------------------------------------
(* Lifecycle of the Coordinates object *)

\* a destructor releasing one array twice and another not at all
Deletions_twice ==
  <<"cell_width1_i_", "src_terms_i1_", "metric_cell_i1_", "metric_cell_i2_",
    "metric_face1_i1_", "metric_face1_i2_", "metric_face2_i1_",
    "metric_face2_i2_", "metric_face3_i1_", "metric_face3_i2_",
    "trans_face1_i2_", "trans_face2_i1_", "trans_face2_i1_",
    "trans_face3_i2_">>

\* the arrays the destructor releases, in the order of its calls
Deletions ==
  <<"cell_width1_i_", "src_terms_i1_", "metric_cell_i1_", "metric_cell_i2_",
    "metric_face1_i1_", "metric_face1_i2_", "metric_face2_i1_",
    "metric_face2_i2_", "metric_face3_i1_", "metric_face3_i2_",
    "trans_face1_i2_", "trans_face2_i1_", "trans_face2_i2_",
    "trans_face3_i2_">>

\* the object has not been destroyed
Alive == args.op # "~Coordinates"

Destructor ==
  /\ heap' = [a \in ArrayNames |->
                [heap[a] EXCEPT !.deletes = @ + Count(a, Deletions)]]
  /\ args' = [op |-> "~Coordinates"]
  /\ UNCHANGED <<configVars, outputVars, loopVars, coordVars, providerVars,
                 metricVars, frameVars, sourceVars>>

\* construct, use any number of times, destroy
NextLifecycle ==
  \/ Fresh /\ NextMetric
  \/ Fresh /\ NextWidth
  \/ Alive /\ Reallocate
  \/ Alive /\ Destructor

SpecLifecycle == Init /\ [][NextLifecycle]_vars

---------------------------------------------------------------------------
(* Claims about the Metric Provider *)

MetricOps == {"CellMetric", "Face1Metric", "Face2Metric", "Face3Metric"}

\* the indices the metric provider `op` fills
MetricRange(op) ==
  IF op = "CellMetric" THEN (pmy_block.is - NGHOST)..(pmy_block.ie + NGHOST)
  ELSE IF op = "Face1Metric" THEN pmy_block.is..(pmy_block.ie + 1)
  ELSE pmy_block.is..pmy_block.ie

\* the precomputed pair (alphaSquared, beta) of the location `op` fills from
MetricPair(op, i) ==
  IF op = "CellMetric" THEN <<metric_cell_i1_[i], metric_cell_i2_[i]>>
  ELSE IF op = "Face1Metric" THEN <<metric_face1_i1_[i], metric_face1_i2_[i]>>
  ELSE IF op = "Face2Metric" THEN <<metric_face2_i1_[i], metric_face2_i2_[i]>>
  ELSE <<metric_face3_i1_[i], metric_face3_i2_[i]>>

\* C1: after CellMetric, Face1Metric, Face2Metric or Face3Metric, at every
\* index the call filled, the symmetric matrices built from the written
\* covariant and inverse components multiply to the identity.
C1_MetricTimesInverseIsIdentity ==
  args.op \in MetricOps =>
    \A i \in MetricRange(args.op) :
      /\ Mul(g[I00][i], g_inv[I00][i]) = One
      /\ Mul(g[I33][i], g_inv[I33][i]) = One
      /\ Add(Mul(g[I11][i], g_inv[I11][i]), Mul(g[I12][i], g_inv[I12][i])) = One
      /\ Add(Mul(g[I11][i], g_inv[I12][i]), Mul(g[I12][i], g_inv[I22][i])) = Zero
      /\ Add(Mul(g[I12][i], g_inv[I11][i]), Mul(g[I22][i], g_inv[I12][i])) = Zero
      /\ Add(Mul(g[I12][i], g_inv[I12][i]), Mul(g[I22][i], g_inv[I22][i])) = One

\* a metric provider has filled an index where the metric is not diagonal
C1_Witness ==
  /\ args.op = "CellMetric"
  /\ \E i \in MetricRange(args.op) : g[I12][i] # Zero /\ g_inv[I12][i] # Zero

\* C2: after each metric provider, at every index it filled, the ten written
\* components are g00=-1, g11=alphaSquared, g12=-beta, g22=1, g33=1 and
\* inverse g00=-1, g11=1, g12=beta, g22=alphaSquared, g33=1, with
\* (alphaSquared, beta) the precomputed pair of the provider's location.
C2_MetricComponents ==
  args.op \in MetricOps =>
    \A i \in MetricRange(args.op) :
      LET alphaSquared == MetricPair(args.op, i)[1]
          beta == MetricPair(args.op, i)[2]
      IN  /\ g[I00][i] = Neg(One)
          /\ g[I11][i] = alphaSquared
          /\ g[I12][i] = Neg(beta)
          /\ g[I22][i] = One
          /\ g[I33][i] = One
          /\ g_inv[I00][i] = Neg(One)
          /\ g_inv[I11][i] = One
          /\ g_inv[I12][i] = beta
          /\ g_inv[I22][i] = alphaSquared
          /\ g_inv[I33][i] = One

\* Face1Metric has filled an index whose face pair differs from the cell pair
C2_Witness ==
  /\ args.op = "Face1Metric"
  /\ \E i \in MetricRange(args.op) :
       /\ g[I11][i] # metric_cell_i1_[i]
       /\ g[I12][i] # Zero

---------------------------------------------------------------------------
(* Claims about the Volume/Area/Length Provider *)

\* C8 as stated: after CellVolume(k, j, il, iu), volumes(i) is the product of
\* the precomputed effective width CenterWidth1 returns for i with dx2f(j) and
\* dx3f(k), for every i in [il, iu].
C8_VolumeFromCellWidth ==
  args.op = "CellVolume" =>
    \A i \in args.il..args.iu :
      volumes[i] = Mul(Mul(CenterWidth1(args.k, args.j, i),
                           pmy_block.dx2f[args.j]), pmy_block.dx3f[args.k])

\* C8 amended: after CellVolume(k, j, il, iu), volumes(i) is the product of the
\* raw coordinate spacings dx1f(i), dx2f(j) and dx3f(k), for every i in [il, iu].
C8_VolumeFromSpacings ==
  args.op = "CellVolume" =>
    \A i \in args.il..args.iu :
      volumes[i] = Mul(Mul(pmy_block.dx1f[i], pmy_block.dx2f[args.j]),
                       pmy_block.dx3f[args.k])

\* CellVolume has filled a cell whose effective width is not its raw spacing
C8_Witness ==
  /\ args.op = "CellVolume"
  /\ \E i \in args.il..args.iu :
       /\ CenterWidth1(args.k, args.j, i) # pmy_block.dx1f[i]
       /\ volumes[i] # args.buf[i]

\* the width along x1 the face areas are claimed to use, and the one they use
AreaFromWidth(w1) ==
  \A i \in args.il..args.iu :
    /\ args.op = "Face1Area" =>
         areas[i] = Mul(pmy_block.dx2f[args.j], pmy_block.dx3f[args.k])
    /\ args.op = "Face2Area" => areas[i] = Mul(w1[i], pmy_block.dx3f[args.k])
    /\ args.op = "Face3Area" => areas[i] = Mul(w1[i], pmy_block.dx2f[args.j])

AreaOps == {"Face1Area", "Face2Area", "Face3Area"}

\* C9 as stated: after FaceNArea(k, j, il, iu), for every i in [il, iu],
\* Face1Area(i) = dx2f(j)*dx3f(k), Face2Area(i) = w1(i)*dx3f(k) and
\* Face3Area(i) = w1(i)*dx2f(j) with w1(i) the precomputed cellWidth(i).
C9_AreaFromCellWidth == args.op \in AreaOps => AreaFromWidth(cell_width1_i_)

\* C9 amended: the same products with w1(i) the raw coordinate spacing dx1f(i).
C9_AreaFromSpacings == args.op \in AreaOps => AreaFromWidth(pmy_block.dx1f)

\* Face3Area has filled a face whose cell's effective width is not its spacing
C9_Witness ==
  /\ args.op = "Face3Area"
  /\ \E i \in args.il..args.iu :
       /\ cell_width1_i_[i] # pmy_block.dx1f[i]
       /\ areas[i] # args.buf[i]
       /\ pmy_block.dx2f[args.j] # pmy_block.dx3f[0]

---------------------------------------------------------------------------
(* Claims about the Frame Transformer *)

PrimOp(d) == <<"PrimToLocal1", "PrimToLocal2", "PrimToLocal3">>[d]

FluxOp(d) == <<"FluxToGlobal1", "FluxToGlobal2", "FluxToGlobal3">>[d]

PrimOps == {PrimOp(d) : d \in 1..3}

FluxOps == {FluxOp(d) : d \in 1..3}

\* the direction of a Frame Transformer call
Direction(op) == CHOOSE d \in 1..3 : op \in {PrimOp(d), FluxOp(d)}

\* the index range the call of direction d sweeps
FrameRange(d) ==
  IF d = 1 THEN pmy_block.is..(pmy_block.ie + 1)
  ELSE pmy_block.is..pmy_block.ie

PrimCoef(d, i) ==
  IF d = 1 THEN PrimToLocal1Coef(i)
  ELSE IF d = 2 THEN PrimToLocal2Coef(i) ELSE PrimToLocal3Coef(i)

\* the map PrimToLocal-d applies to the four-velocity
Rot(d, c, u) ==
  IF d = 1 THEN Rot1(c, u) ELSE IF d = 2 THEN Rot2(c, u) ELSE Rot3(c, u)

\* the map PrimToLocal-d applies to the magnetic four-vector
BRot(d, c, bcon) ==
  IF d = 1 THEN BRot1(c, bcon)
  ELSE IF d = 2 THEN BRot2(c, bcon) ELSE BRot3(c, bcon)

\* the global 3-field (b1, b2, b3) PrimToLocal-d extracts for the state w
GlobalField(d, w, i) ==
  LET bn == args.b_vals[args.k][args.j][i]
  IN  IF d = 1 THEN <<bn, w[IBY][i], w[IBZ][i]>>
      ELSE IF d = 2 THEN <<w[IBZ][i], bn, w[IBY][i]>>
      ELSE <<w[IBY][i], w[IBZ][i], bn>>

\* local four-velocity and magnetic four-vector PrimToLocal-d forms for w
LocalFrame(d, w, i) ==
  LET c == PrimCoef(d, i)
      u == FourVelocity(c, Vel(w, i))
      bcon == BCon(c, u, GlobalField(d, w, i))
  IN  [c |-> c, u |-> u, bcon |-> bcon, r |-> Rot(d, c, u),
       rb |-> BRot(d, c, bcon)]

\* C3: for every direction and index of the range, the rotation PrimToLocal-d
\* applies to the global four-velocity keeps the time component and maps the
\* spatial metric the function normalises with to the Euclidean one:
\* ut = u0 and ux^2 + uy^2 + uz^2 = g11 u1^2 + 2 g12 u1 u2 + g22 u2^2 + g33 u3^2
C3_RotationIsOrthonormal ==
  args.op \in PrimOps =>
    \A i \in FrameRange(Direction(args.op)),
       w \in {args.prim_left, args.prim_right} :
      LET f == LocalFrame(Direction(args.op), w, i)
      IN  /\ f.r[1] = f.u[1]
          /\ Sum(<<SQR(f.r[2]), SQR(f.r[3]), SQR(f.r[4])>>)
               = Sum(<<Prod(<<f.c.g11, f.u[2], f.u[2]>>),
                       Prod(<<Two, f.c.g12, f.u[2], f.u[3]>>),
                       Prod(<<f.c.g22, f.u[3], f.u[3]>>),
                       Prod(<<f.c.g33, f.u[4], f.u[4]>>)>>)

\* C4: with magnetic fields enabled, PrimToLocal-d maps the global magnetic
\* four-vector of the left and of the right state with the coefficients it
\* maps the four-velocity with, off-diagonal terms included
C4_FieldRotatedLikeVelocity ==
  (MAGNETIC_FIELDS_ENABLED /\ args.op \in PrimOps) =>
    \A i \in FrameRange(Direction(args.op)),
       w \in {args.prim_left, args.prim_right} :
      LET f == LocalFrame(Direction(args.op), w, i)
      IN  f.rb = Rot(Direction(args.op), f.c, f.bcon)

\* C5: with magnetic fields enabled, the normal field PrimToLocal-d returns
\* at index i is the mean of the left and right local fields along the local
\* x axis, and IBY/IBZ receive the local y and z components
C5_NormalFieldIsMeanAlongX ==
  (MAGNETIC_FIELDS_ENABLED /\ args.op \in PrimOps) =>
    \A i \in FrameRange(Direction(args.op)) :
      LET l == LocalFrame(Direction(args.op), args.prim_left, i)
          r == LocalFrame(Direction(args.op), args.prim_right, i)
          Rest(f) == {LocalField(f.r, f.rb, 3), LocalField(f.r, f.rb, 4)}
      IN  /\ bnorm[i] = Mul(Half, Add(LocalField(l.r, l.rb, 2),
                                      LocalField(r.r, r.rb, 2)))
          /\ {prim_left[IBY][i], prim_left[IBZ][i]} = Rest(l)
          /\ {prim_right[IBY][i], prim_right[IBZ][i]} = Rest(r)

FluxCoef(d, i) ==
  IF d = 1 THEN FluxToGlobal1Coef(i)
  ELSE IF d = 2 THEN FluxToGlobal2Coef(i) ELSE FluxToGlobal3Coef(i)

\* the global four-vector of the local one x under the FluxToGlobal-d matrix c
Back(d, c, x) ==
  IF d = 1
  THEN <<Mul(c.m0t, x[1]), Mul(c.m1x, x[2]),
         Add(Mul(c.m2x, x[2]), Mul(c.m2y, x[3])), Mul(c.m3z, x[4])>>
  ELSE IF d = 2
  THEN <<Mul(c.m0t, x[1]), Add(Mul(c.m1x, x[2]), Mul(c.m1z, x[4])),
         Mul(c.m2x, x[2]), Mul(c.m3y, x[3])>>
  ELSE <<Mul(c.m0t, x[1]), Mul(c.m1y, x[3]),
         Add(Mul(c.m2y, x[3]), Mul(c.m2z, x[4])), Mul(c.m3x, x[2])>>

\* the slots holding the local x, y and z components in direction d
LocalSlot(d) ==
  IF d = 1 THEN <<IVX, IVY, IVZ>>
  ELSE IF d = 2 THEN <<IVY, IVZ, IVX>> ELSE <<IVZ, IVX, IVY>>

\* C6: PrimToLocal-d leaves the local x, y, z velocities in the slots
\* LocalSlot(d), FluxToGlobal-d takes the local x, y, z momentum fluxes from
\* the same slots, and afterwards IM1, IM2, IM3 hold the covariant global
\* components 1, 2, 3 of the flux through the face of direction d
C6_SlotPermutation ==
  LET d == Direction(args.op)
  IN  /\ args.op \in PrimOps =>
           \A i \in FrameRange(d), a \in 1..3 :
             /\ prim_left[LocalSlot(d)[a]][i]
                  = LocalVel(LocalFrame(d, args.prim_left, i).r, a + 1)
             /\ prim_right[LocalSlot(d)[a]][i]
                  = LocalVel(LocalFrame(d, args.prim_right, i).r, a + 1)
      /\ args.op \in FluxOps =>
           \A i \in FrameRange(d) :
             LET c == FluxCoef(d, i)
                 n == Back(d, c, <<Zero, One, Zero, Zero>>)[d + 1]
                 t == Back(d, c, <<args.flux[IEN][i],
                                   args.flux[LocalSlot(d)[1]][i],
                                   args.flux[LocalSlot(d)[2]][i],
                                   args.flux[LocalSlot(d)[3]][i]>>)
             IN  /\ flux[IM1][i] = Mul(n, Add(Mul(c.g11, t[2]), Mul(c.g12, t[3])))
                 /\ flux[IM2][i] = Mul(n, Add(Mul(c.g12, t[2]), Mul(c.g22, t[3])))
                 /\ flux[IM3][i] = Mul(n, Mul(c.g33, t[4]))

\* a y-face flux sweep has run after interface states were made local
C6_Witness ==
  /\ args.op = "FluxToGlobal2"
  /\ \E i \in FrameRange(2) :
       /\ prim_left[IVY][i] # Zero
       /\ prim_right[IVX][i] # prim_right[IVY][i]
       /\ flux[IM1][i] # args.flux[IM1][i]
       /\ flux[IM1][i] # flux[IM2][i]

\* four-vectors spanning the space, and one with every component different
TestVectors ==
  {<<One, Zero, Zero, Zero>>, <<Zero, One, Zero, Zero>>,
   <<Zero, Zero, One, Zero>>, <<Zero, Zero, Zero, One>>,
   <<R(2, 1), R(3, 1), R(-5, 1), R(7, 2)>>}

\* C7: at every index of the range the FluxToGlobal-d matrix is the inverse
\* of the PrimToLocal-d rotation, and both functions use one metric pair
C7_InverseRotation ==
  args.op \in PrimOps \cup FluxOps =>
    \A d \in 1..3 : \A i \in FrameRange(d) :
      LET p == PrimCoef(d, i)
          f == FluxCoef(d, i)
      IN  /\ <<p.g00, p.g11, p.g12, p.g22, p.g33>>
               = <<f.g00, f.g11, f.g12, f.g22, f.g33>>
          /\ \A x \in TestVectors :
               /\ Back(d, f, Rot(d, p, x)) = x
               /\ Rot(d, p, Back(d, f, x)) = x

\* a flux sweep across y faces has run where the chart is sheared
C7_Witness ==
  /\ args.op = "FluxToGlobal2"
  /\ \E i \in FrameRange(2) :
       /\ trans_face2_i2_[i] # Zero
       /\ FluxToGlobal2Coef(i).m1x # Zero
       /\ flux[IM2][i] # args.flux[IM2][i]

---------------------------------------------------------------------------
(* Claims about the Source Term Module *)

\* C10: a call of CoordinateSourceTerms changes nothing but cons(IM1,k,j,i)
\* of the interior cells: all other conserved variables, the ghost cells of
\* cons and the whole of prim are as the caller passed them
C10_SourceFrame ==
  args.op = "CoordinateSourceTerms" =>
    /\ prim = args.prim
    /\ \A s \in HydroSlots, k \in I3, j \in I2, i \in I1 :
         (s # IM1 \/ ~Interior(k, j, i)) =>
           cons[s][k][j][i] = args.cons[s][k][j][i]

\* a call has changed the x1-momentum of an interior cell next to ghost
\* cells that hold momentum of their own
C10_Witness ==
  /\ args.op = "CoordinateSourceTerms"
  /\ \E k \in I3, j \in I2, i \in I1 :
       Interior(k, j, i) /\ cons[IM1][k][j][i] # args.cons[IM1][k][j][i]
  /\ \E k \in I3, j \in I2, i \in I1 :
       /\ ~Interior(k, j, i)
       /\ args.cons[IM1][k][j][i] # Zero
       /\ SourceAt(args.dt, args.gamma_adi, args.prim, k, j, i) # Zero

\* C11: the source term CoordinateSourceTerms adds to an interior cell is
\* the one built from the covariant metric CellMetric writes for that cell:
\* dt * gamma_211 * rho_h * u1 * u_2 with u_2 = g12 u1 + g22 u2 and
\* -1/u0^2 = g00 + g11 v1^2 + 2 g12 v1 v2 + g22 v2^2 + g33 v3^2, where
\* g11, g12, g22 are g(I11,i), g(I12,i), g(I22,i)
C11_SourceUsesCellMetric ==
  (args.op = "CoordinateSourceTerms" /\ g[I00][pmy_block.is] # Zero) =>
    \A k \in I3, j \in I2, i \in I1 :
      LET m == [g00 |-> g[I00][i], g11 |-> g[I11][i], g12 |-> g[I12][i],
                g22 |-> g[I22][i], g33 |-> g[I33][i]]
          c == SourceState(args.prim, k, j, i)
          rho_h == Add(args.prim[IDN][k][j][i],
                       Mul(Div(args.gamma_adi, Sub(args.gamma_adi, One)),
                           args.prim[IEN][k][j][i]))
          u0_sq == Div(Neg(One), Bracket(m, c))
          u_2_over_u0 == Add(Mul(m.g12, c.v1), Mul(m.g22, c.v2))
      IN  (Interior(k, j, i) /\ Less(Bracket(m, c), Zero)
             /\ Less(Bracket(c, c), Zero)) =>
            Sub(cons[IM1][k][j][i], args.cons[IM1][k][j][i])
              = Prod(<<args.dt, src_terms_i1_[i], rho_h, u0_sq, c.v1,
                       u_2_over_u0>>)

\* C12: in a chart with A = 0 CoordinateSourceTerms leaves cons(IM1) of
\* every interior cell exactly as the caller passed it, whatever the
\* velocity, density, pressure and time step
C12_NoSourceInFlatChart ==
  (args.op = "CoordinateSourceTerms" /\ A = Zero) =>
    \A k \in I3, j \in I2, i \in I1 :
      Interior(k, j, i) => cons[IM1][k][j][i] = args.cons[IM1][k][j][i]

\* C13: at an interior cell whose three-velocity is zero
\* CoordinateSourceTerms reconstructs u0 = 1, u1 = u2 = 0 and leaves
\* cons(IM1) of that cell exactly as the caller passed it, whatever the
\* density, pressure, time step and metric of the cell
C13_RestCellGetsNoSource ==
  args.op = "CoordinateSourceTerms" =>
    \A k \in I3, j \in I2, i \in I1 :
      LET c == SourceState(args.prim, k, j, i)
      IN  (Interior(k, j, i) /\ c.v1 = Zero /\ c.v2 = Zero /\ c.v3 = Zero) =>
            /\ SourceFourVelocity(args.prim, k, j, i)
                 = [u0 |-> One, u1 |-> Zero, u2 |-> Zero]
            /\ cons[IM1][k][j][i] = args.cons[IM1][k][j][i]

\* a call that changed a moving cell and met a cell at rest where the
\* connection coefficient and the shift are both nonzero
C13_Witness ==
  /\ args.op = "CoordinateSourceTerms"
  /\ \E k \in I3, j \in I2, i \in I1 :
       /\ Interior(k, j, i)
       /\ args.prim[IVX][k][j][i] = Zero
       /\ args.prim[IVY][k][j][i] = Zero
       /\ args.prim[IVZ][k][j][i] = Zero
       /\ src_terms_i1_[i] # Zero
       /\ metric_cell_i2_[i] # Zero
  /\ \E k \in I3, j \in I2, i \in I1 :
       /\ Interior(k, j, i)
       /\ cons[IM1][k][j][i] # args.cons[IM1][k][j][i]

\* C14: in a chart with A = 0, whatever K is, CenterWidth1 returns the
\* coordinate spacing dx1f(i) at every index from is-NGHOST to ie+NGHOST,
\* and the widths of the interior cells add up to the coordinate extent
\* x1f(ie+1) - x1f(is) of the block
C14_FlatWidthIsSpacing ==
  A = Zero =>
    /\ \A k \in I3, j \in I2, i \in I1 :
         CenterWidth1(k, j, i) = pmy_block.dx1f[i]
    /\ Sum([n \in 1..Nx1 |->
              CenterWidth1(pmy_block.ks, pmy_block.js, pmy_block.is + n - 1)])
         = Sub(pmy_block.x1f[pmy_block.ie + 1], pmy_block.x1f[pmy_block.is])

----------------------------------------------------------------------------
(* HDF5 Output Writer *)

MaxBlocks == 2       \* largest pM->nbtotal

MaxFileNumber == 2   \* output cycles followed

\* the writer is constructed with the parameters of its output block
ATHDF5Output(oparams, b, m) ==
  /\ output_params' = oparams
  /\ pin' = [file_number |-> oparams.file_number,
             next_time |-> oparams.next_time]
  /\ build' = b
  /\ pM' = m
  /\ UNCHANGED <<coordinatesVars, file, ids, h5>>

RECURSIVE Flatten(_)
Flatten(ss) == IF ss = <<>> THEN <<>> ELSE Head(ss) \o Flatten(Tail(ss))

\* one HDF5 call: the function making it, the library call and the handle
Call(fn, call, id) == [fn |-> fn, call |-> call, id |-> id]

\* the handle of the file of the current cycle
File == <<"file", output_params.file_number>>

\* an entry of an id array that was never assigned
Unassigned == <<"", -1>>

nbl == pM.nbe - pM.nbs + 1

mbsize ==
  <<pmy_block.block_size.nx1, pmy_block.block_size.nx2,
    pmy_block.block_size.nx3>>

dim == IF mbsize[3] > 1 THEN 3 ELSE IF mbsize[2] > 1 THEN 2 ELSE 1

Local(b) == b >= pM.nbs /\ b <= pM.nbe

Selected(names) == output_params.variable \in names

Dataset(name, arr, n) == [name |-> name, key |-> <<arr, n>>]

\* three datasets kept in the components 0, 1, 2 of an array of id arrays
Triple(names, arr) == [n \in 1..3 |-> Dataset(names[n], arr, n - 1)]

If(c, seq) == IF c THEN seq ELSE <<>>

\* the datasets Initialize creates in the group of every block, in order,
\* each with the id array that keeps the handle of a local block
Datasets ==
  <<Dataset("x1f", "x1fid", 0), Dataset("x2f", "x2fid", 0)>>
    \o If(mbsize[3] > 1, <<Dataset("x3f", "x3fid", 0)>>)
    \o If(Selected({"D", "cons"}), <<Dataset("dens", "rhoid", 0)>>)
    \o If(Selected({"d", "prim"}), <<Dataset("rho", "rhoid", 0)>>)
    \o If(build.NON_BAROTROPIC_EOS /\ Selected({"E", "cons"}),
          <<Dataset("Etot", "eid", 0)>>)
    \o If(build.NON_BAROTROPIC_EOS /\ Selected({"p", "prim"}),
          <<Dataset("press", "eid", 0)>>)
    \o If(Selected({"m", "cons"}), Triple(<<"mom1", "mom2", "mom3">>, "mid"))
    \o If(Selected({"v", "prim"}), Triple(<<"vel1", "vel2", "vel3">>, "mid"))
    \o If(MAGNETIC_FIELDS_ENABLED /\ Selected({"b", "prim", "cons"}),
          Triple(<<"cc-B1", "cc-B2", "cc-B3">>, "bid"))
    \o If(build.RADIATION_ENABLED /\ Selected({"Er", "prim", "cons"}),
          <<Dataset("Er", "erid", 0)>>)
    \o If(build.RADIATION_ENABLED /\ Selected({"Er0", "prim", "cons"}),
          <<Dataset("Er0", "er0id", 0)>>)
    \o If(build.RADIATION_ENABLED /\ Selected({"Sigma_s", "prim", "cons"}),
          <<Dataset("Sigma_s", "sigmasid", 0)>>)
    \o If(build.RADIATION_ENABLED /\ Selected({"Sigma_a", "prim", "cons"}),
          <<Dataset("Sigma_a", "sigmaaid", 0)>>)
    \o If(build.RADIATION_ENABLED /\ Selected({"Fr", "prim", "cons"}),
          Triple(<<"Fr1", "Fr2", "Fr3">>, "frid"))
    \o If(build.RADIATION_ENABLED /\ Selected({"Fr0", "prim", "cons"}),
          Triple(<<"Fr01", "Fr02", "Fr03">>, "fr0id"))
    \o If(build.RADIATION_ENABLED /\ Selected({"Pr", "prim", "cons"}),
          [n \in 1..9 |->
             Dataset(<<"Pr11", "Pr12", "Pr13", "Pr21", "Pr22", "Pr23", "Pr31",
                       "Pr32", "Pr33">>[n], "prid", n - 1)])
    \o If(Selected({"ifov"}),
          [n \in 1..build.NIFOV |->
             Dataset(<<"ifov0", "ifov1", "ifov2">>[n], "ifovid", n - 1)])

\* CreateDataset keeping the handle of a block of another rank open
CreateDataset_leak(d, b) ==
  <<Call("Initialize", "H5Dcreate2", <<d.name, b>>)>>

\* H5Dcreate2 of a dataset in the group of block b; the handle of a block of
\* another rank is closed at once
CreateDataset(d, b) ==
  <<Call("Initialize", "H5Dcreate2", <<d.name, b>>)>>
    \o If(~Local(b), <<Call("Initialize", "H5Dclose", <<d.name, b>>)>>)

\* the calls of Initialize for block b
BlockCalls(b) ==
  <<Call("Initialize", "H5Gcreate", <<"/MeshBlock", b>>)>>
    \o Flatten([n \in 1..Len(Datasets) |-> CreateDataset(Datasets[n], b)])
    \o If(~Local(b), <<Call("Initialize", "H5Gclose", <<"/MeshBlock", b>>)>>)

\* the id arrays Initialize allocates with new hid_t[nbl]
Allocated(key) ==
  LET arr == key[1]
  IN  \/ arr \in {"grpid", "x1fid", "x2fid", "rhoid", "mid"}
      \/ arr = "x3fid" /\ mbsize[3] > 1
      \/ arr = "eid" /\ build.NON_BAROTROPIC_EOS
      \/ /\ arr \in {"erid", "er0id", "sigmasid", "sigmaaid", "frid", "fr0id",
                     "prid"}
         /\ build.RADIATION_ENABLED
      \/ arr = "bid" /\ MAGNETIC_FIELDS_ENABLED
      \/ arr = "ifovid" /\ key[2] < build.NIFOV

\* the handle Initialize leaves in entry lid of the id array key
Stored(key, lid) ==
  IF key = <<"grpid", 0>> THEN <<"/MeshBlock", pM.nbs + lid>>
  ELSE LET made == {n \in 1..Len(Datasets) : Datasets[n].key = key}
       IN  IF made = {} THEN Unassigned
           ELSE <<Datasets[CHOOSE n \in made : TRUE].name, pM.nbs + lid>>

\* Initialize: create the file, the group of every block of the Mesh and the
\* datasets of the selected variables in it
Initialize ==
  /\ file' = "open"
  /\ h5' = <<Call("Initialize", "H5Fcreate", File)>>
             \o Flatten([b \in 1..pM.nbtotal |-> BlockCalls(b - 1)])
  /\ ids' = [key \in ArrayKeys |->
               IF Allocated(key) THEN [l \in 1..nbl |-> Stored(key, l - 1)]
               ELSE <<>>]
  /\ UNCHANGED <<coordinatesVars, build, pM, output_params, pin>>

\* the id array WriteOutputFile takes the handle of a variable from; "" for
\* a name it skips
ArrayOf(name) ==
  IF name \in {"dens", "rho"} THEN "rhoid"
  ELSE IF name \in {"Etot", "press"} THEN "eid"
  ELSE IF name \in {"mom", "vel"} THEN "mid"
  ELSE IF name = "cc-B" THEN "bid"
  ELSE IF name = "Er" THEN "erid"
  ELSE IF name = "Er0" THEN "er0id"
  ELSE IF name = "Sigma_s" THEN "sigmasid"
  ELSE IF name = "Sigma_a" THEN "sigmaaid"
  ELSE IF name = "Fr" THEN "frid"
  ELSE IF name = "Fr0" THEN "fr0id"
  ELSE IF name = "Pr" THEN "prid"
  ELSE IF name = "ifov" THEN "ifovid"
  ELSE ""

\* the arrays of id arrays, indexed by the component n of the variable
Indexed == {"mid", "bid", "frid", "fr0id", "prid", "ifovid"}

\* the value read from entry lid of the id array key
IdOf(key, lid) ==
  IF key \in ArrayKeys /\ lid < Len(ids[key]) THEN ids[key][lid + 1]
  ELSE Unassigned

\* H5Dwrite followed by H5Dclose of one dataset
WriteAndClose(did) ==
  <<Call("WriteOutputFile", "H5Dwrite", did),
    Call("WriteOutputFile", "H5Dclose", did)>>

\* the calls of WriteOutputFile for the components of one output variable
VariableCalls(pvar, lid) ==
  LET arr == ArrayOf(pvar.name)
      did(n) == IdOf(<<arr, IF arr \in Indexed THEN n ELSE 0>>, lid)
  IN  Flatten([n \in 1..pvar.nvar |->
                 If(arr # "", WriteAndClose(did(n - 1)))])

\* WriteOutputFile: write and close the datasets of the block pmb, then
\* close its group
WriteOutputFile(pod, pmb) ==
  /\ h5' = h5 \o WriteAndClose(IdOf(<<"x1fid", 0>>, pmb.lid))
              \o WriteAndClose(IdOf(<<"x2fid", 0>>, pmb.lid))
              \o If(dim = 3, WriteAndClose(IdOf(<<"x3fid", 0>>, pmb.lid)))
              \o Flatten([v \in 1..Len(pod) |-> VariableCalls(pod[v], pmb.lid)])
              \o <<Call("WriteOutputFile", "H5Gclose",
                        IdOf(<<"grpid", 0>>, pmb.lid))>>
  /\ UNCHANGED <<coordinatesVars, build, pM, output_params, pin, file, ids>>

\* Finalize: close the file, release the id arrays and advance the output
\* number and time
Finalize ==
  /\ h5' = Append(h5, Call("Finalize", "H5Fclose", File))
  /\ file' = "closed"
  /\ ids' = [key \in ArrayKeys |-> <<>>]
  /\ output_params' =
       [output_params EXCEPT !.file_number = @ + 1,
                             !.next_time = Add(@, output_params.dt)]
  /\ pin' = [file_number |-> output_params'.file_number,
             next_time |-> output_params'.next_time]
  /\ UNCHANGED <<coordinatesVars, build, pM>>

\* the output variables the caller hands to WriteOutputFile for the selected
\* variable: a scalar has one component, a vector three, the radiation
\* pressure nine, the passive scalars NIFOV; a single component of a vector
\* ("m1") comes under a name of its own
LoadOutputData ==
  LET Var(name, nvar) == <<[name |-> name, nvar |-> nvar]>>
  IN  If(Selected({"D", "cons"}), Var("dens", 1))
        \o If(Selected({"d", "prim"}), Var("rho", 1))
        \o If(build.NON_BAROTROPIC_EOS /\ Selected({"E", "cons"}),
              Var("Etot", 1))
        \o If(build.NON_BAROTROPIC_EOS /\ Selected({"p", "prim"}),
              Var("press", 1))
        \o If(Selected({"m", "cons"}), Var("mom", 3))
        \o If(Selected({"v", "prim"}), Var("vel", 3))
        \o If(Selected({"m1"}), Var("mom1", 1))
        \o If(MAGNETIC_FIELDS_ENABLED /\ Selected({"b", "prim", "cons"}),
              Var("cc-B", 3))
        \o If(build.RADIATION_ENABLED /\ Selected({"Er", "prim", "cons"}),
              Var("Er", 1))
        \o If(build.RADIATION_ENABLED /\ Selected({"Er0", "prim", "cons"}),
              Var("Er0", 1))
        \o If(build.RADIATION_ENABLED /\ Selected({"Sigma_s", "prim", "cons"}),
              Var("Sigma_s", 1))
        \o If(build.RADIATION_ENABLED /\ Selected({"Sigma_a", "prim", "cons"}),
              Var("Sigma_a", 1))
        \o If(build.RADIATION_ENABLED /\ Selected({"Fr", "prim", "cons"}),
              Var("Fr", 3))
        \o If(build.RADIATION_ENABLED /\ Selected({"Fr0", "prim", "cons"}),
              Var("Fr0", 3))
        \o If(build.RADIATION_ENABLED /\ Selected({"Pr", "prim", "cons"}),
              Var("Pr", 9))
        \o If(Selected({"ifov"}) /\ build.NIFOV > 0, Var("ifov", build.NIFOV))

\* the local blocks WriteOutputFile has not been called for in this cycle
Unwritten ==
  {lid \in 0..(nbl - 1) :
     \A n \in DOMAIN h5 :
       h5[n] # Call("WriteOutputFile", "H5Gclose",
                    <<"/MeshBlock", pM.nbs + lid>>)}

\* the builds, meshes and output blocks followed
Builds ==
  {[NON_BAROTROPIC_EOS |-> TRUE, RADIATION_ENABLED |-> FALSE, NIFOV |-> 0],
   [NON_BAROTROPIC_EOS |-> FALSE, RADIATION_ENABLED |-> FALSE,
    NIFOV |-> MaxNIFOV],
   [NON_BAROTROPIC_EOS |-> TRUE, RADIATION_ENABLED |-> TRUE, NIFOV |-> 0]}

\* the ranges nbs..nbe of blocks a rank can own in a Mesh of MaxBlocks blocks
Meshes ==
  {m \in [nbtotal : {MaxBlocks}, nbs : 0..(MaxBlocks - 1),
          nbe : 0..(MaxBlocks - 1)] : m.nbs <= m.nbe}

OutputVariables == {"cons", "prim", "D", "p", "v", "b", "m1", "ifov", "Fr"}

OutputBlocks ==
  {[variable |-> v, file_number |-> 0, next_time |-> Zero, dt |-> d] :
     v \in OutputVariables, d \in {R(3, 2)}}

\* one output cycle after another: Initialize, WriteOutputFile once for each
\* block of the rank, Finalize
NextOutput ==
  \/ /\ output_params.variable = ""
     /\ \E oparams \in OutputBlocks, b \in Builds, m \in Meshes :
          ATHDF5Output(oparams, b, m)
  \/ /\ output_params.variable # ""
     /\ file # "open"
     /\ output_params.file_number < MaxFileNumber
     /\ Initialize
  \/ /\ file = "open"
     /\ \E lid \in Unwritten :
          WriteOutputFile(LoadOutputData, [gid |-> pM.nbs + lid, lid |-> lid])
  \/ /\ file = "open"
     /\ Unwritten = {}
     /\ Finalize

\* the writer of a run on the built-in chart
InitOutput == InitSinusoidal /\ pmy_block.x1f[0] = Zero

SpecOutput == InitOutput /\ [][NextOutput]_vars

----------------------------------------------------------------------------
(* Claims about the Coordinates object as a whole *)

\* the stored first metric components
AlphaSquared ==
  {metric_cell_i1_, metric_face1_i1_, metric_face2_i1_, metric_face3_i1_}

\* C16: after construction and after any sequence of calls, every stored
\* alphaSquared (first component of metricCell, metricFace1, metricFace2
\* and metricFace3, at every index) is a finite number not below 1
C16_AlphaSquaredAtLeastOne ==
  \A arr \in AlphaSquared : \A i \in I1 :
    IsFinite(arr[i]) /\ ~Less(arr[i], One)

\* a function has been called on an object that stores alphaSquared = 1 at
\* one index and alphaSquared > 1 at another
C16_Witness ==
  /\ args.op \notin {"Coordinates", "NewAthenaArray"}
  /\ \E i \in I1 : metric_cell_i1_[i] = One
  /\ \E i \in I1 : Less(One, metric_face1_i1_[i])

\* C17: no call of CellVolume, FaceNArea, EdgeNLength, CenterWidthN,
\* CoordinateSourceTerms, CellMetric, FaceNMetric, PrimToLocalN,
\* FluxToGlobalN or DistanceBetweenPoints, in any order and number, changes
\* an element of an array the constructor filled
C17_PrecomputedArraysImmutable == [][coordVars' = coordVars]_vars

\* a call has filled its caller's array on an object whose arrays still hold
\* the nonzero shifts and connection coefficients the constructor computed
C17_Witness ==
  /\ args.op = "Edge1Length"
  /\ \E i \in I1 : lengths[i] # Zero /\ lengths[i] # cell_width1_i_[i]
  /\ \A i \in I1 :
       /\ cell_width1_i_[i] = Geometry(A, K, pmy_block, i).cell_width1
       /\ src_terms_i1_[i] = Geometry(A, K, pmy_block, i).src_terms_i1
       /\ trans_face3_i2_[i] = Geometry(A, K, pmy_block, i).trans_face3_i2
  /\ \E i \in I1 : src_terms_i1_[i] # Zero /\ trans_face3_i2_[i] # Zero

\* C18: a state whose normalization bracket is not negative makes
\* PrimToLocal1/2/3 and CoordinateSourceTerms signal a domain error instead
\* of writing results that are NaN or infinite: the velocities a
\* PrimToLocal call leaves in its range, and the momenta
\* CoordinateSourceTerms leaves in the interior cells, are finite numbers
C18_NoNaNWritten ==
  /\ args.op \in PrimOps =>
       \A i \in FrameRange(Direction(args.op)), s \in {IVX, IVY, IVZ} :
         IsFinite(prim_left[s][i]) /\ IsFinite(prim_right[s][i])
  /\ args.op = "CoordinateSourceTerms" =>
       \A k \in I3, j \in I2, i \in I1 :
         Interior(k, j, i) => IsFinite(cons[IM1][k][j][i])

MetricPairAt(x) ==
  LET cos_x == CosSample(Mul(K, x))
  IN  <<Add(One, Mul(Mul(SQR(A), SQR(K)), SQR(cos_x))), Mul(Mul(A, K), cos_x)>>

\* C20: after construction, at every index i from is-NGHOST to ie+NGHOST the
\* stored metricFace2(i) and metricFace3(i) both equal metricCell(i), the
\* pair evaluated at the cell centre x1v(i), and metricFace1(i) is the pair
\* evaluated at the lower face x1f(i)
C20_FaceMetricPlacement ==
  \A i \in I1 :
    /\ <<metric_cell_i1_[i], metric_cell_i2_[i]>> = MetricPairAt(pmy_block.x1v[i])
    /\ <<metric_face2_i1_[i], metric_face2_i2_[i]>>
         = <<metric_cell_i1_[i], metric_cell_i2_[i]>>
    /\ <<metric_face3_i1_[i], metric_face3_i2_[i]>>
         = <<metric_cell_i1_[i], metric_cell_i2_[i]>>
    /\ <<metric_face1_i1_[i], metric_face1_i2_[i]>> = MetricPairAt(pmy_block.x1f[i])

\* Face2Metric has filled g on an object whose face and cell-centre pairs
\* differ in both components
C20_Witness ==
  /\ args.op = "Face2Metric"
  /\ \E i \in I1 :
       /\ g[I11][i] = metric_cell_i1_[i]
       /\ metric_face1_i1_[i] # metric_cell_i1_[i]
       /\ metric_face1_i2_[i] # metric_cell_i2_[i]
       /\ metric_cell_i2_[i] # Zero

\* the precomputed arrays
PrecomputedArrays ==
  {cell_width1_i_, src_terms_i1_, metric_cell_i1_, metric_cell_i2_,
   metric_face1_i1_, metric_face1_i2_, metric_face2_i1_, metric_face2_i2_,
   metric_face3_i1_, metric_face3_i2_, trans_face1_i2_, trans_face2_i1_,
   trans_face2_i2_, trans_face3_i2_}

\* the indices at which the most recent call read precomputed arrays
ReadRange ==
  IF args.op \in PrimOps \cup FluxOps THEN FrameRange(Direction(args.op))
  ELSE IF args.op \in MetricOps THEN MetricRange(args.op)
  ELSE IF args.op = "CoordinateSourceTerms" THEN pmy_block.is..pmy_block.ie
  ELSE IF args.op = "CenterWidth" /\ args.d = 1 THEN {args.i}
  ELSE {}

\* C21: the constructor's single pass gives every one of the 14 precomputed
\* arrays a value at every index from is-NGHOST to ie+NGHOST, which are all
\* the entries the arrays have, and every index at which a later call reads
\* a precomputed array is one the pass visited
C21_ReadsInsideConstructedRange ==
  /\ \A arr \in PrecomputedArrays :
       /\ DOMAIN arr = (pmy_block.is - NGHOST)..(pmy_block.ie + NGHOST)
       /\ \A i \in DOMAIN arr : ~IsNaN(arr[i])
  /\ ReadRange \subseteq ConstructorPass
  /\ \A i \in ReadRange, arr \in PrecomputedArrays : ~IsNaN(arr[i])

\* CellMetric has read the arrays in the outermost ghost cells of both ends
C21_Witness ==
  /\ NGHOST >= 1
  /\ args.op = "CellMetric"
  /\ \A i \in {pmy_block.is - NGHOST, pmy_block.ie + NGHOST} :
       /\ i \in ReadRange
       /\ g[I11][i] = metric_cell_i1_[i]
       /\ g[I11][i] # Zero

\* C22: every array the constructor allocates is released exactly once by
\* the destructor, the destructor releases no array the constructor did not
\* allocate, and whenever a call reads the precomputed arrays none of them
\* has been released
C22_ReleasedExactlyOnce ==
  /\ \A a \in ArrayNames :
       /\ heap[a].news = (IF a \in MeshBlockArrays THEN 0 ELSE 1)
       /\ heap[a].deletes <= heap[a].news
       /\ ~Alive => heap[a].deletes = heap[a].news
  /\ ReadRange # {} => \A a \in ArrayNames : heap[a].deletes = 0

\* the object was destroyed after its last use: the caller still holds the
\* metric a call filled, and the 14 arrays are released
C22_Witness ==
  /\ ~Alive
  /\ g[I11][pmy_block.is] = metric_cell_i1_[pmy_block.is]
  /\ Cardinality({a \in ArrayNames : heap[a].deletes = 1}) = 14

\* C23 as stated: at every index i from is-NGHOST to ie+NGHOST the stored
\* sourceCoeff(i) is (metricFace1(i).beta - metricFace1(i+1).beta) / dx1f(i),
\* both betas being stored entries of metricFace1
C23_SourceCoeffFromStoredBeta ==
  \A i \in I1 :
    /\ i + 1 \in DOMAIN metric_face1_i2_
    /\ src_terms_i1_[i]
         = Div(Sub(metric_face1_i2_[i], metric_face1_i2_[i + 1]),
               pmy_block.dx1f[i])

\* C23: at every index i from is-NGHOST to ie+NGHOST the stored
\* sourceCoeff(i) is (beta at x1f(i) - beta at x1f(i+1)) / dx1f(i); beta at
\* x1f(i) is the stored metricFace1(i).beta, and beta at x1f(i+1) is the
\* stored metricFace1(i+1).beta at every index but the last, ie+NGHOST,
\* where metricFace1 has no entry i+1
C23_SourceCoeffFromFaceBeta ==
  \A i \in I1 :
    /\ src_terms_i1_[i]
         = Div(Sub(MetricPairAt(pmy_block.x1f[i])[2],
                   MetricPairAt(pmy_block.x1f[i + 1])[2]),
               pmy_block.dx1f[i])
    /\ metric_face1_i2_[i] = MetricPairAt(pmy_block.x1f[i])[2]
    /\ i + 1 \in DOMAIN metric_face1_i2_ <=> i # pmy_block.ie + NGHOST
    /\ i # pmy_block.ie + NGHOST =>
         src_terms_i1_[i]
           = Div(Sub(metric_face1_i2_[i], metric_face1_i2_[i + 1]),
                 pmy_block.dx1f[i])

\* CoordinateSourceTerms has used coefficients that are nonzero in an
\* interior cell and in the last ghost cell
C23_Witness ==
  /\ args.op = "CoordinateSourceTerms"
  /\ src_terms_i1_[pmy_block.ie + NGHOST] # Zero
  /\ \E k \in I3, j \in I2, i \in I1 :
       /\ Interior(k, j, i)
       /\ src_terms_i1_[i] # Zero
       /\ cons[IM1][k][j][i] # args.cons[IM1][k][j][i]

----------------------------------------------------------------------------
(* Claims about the Volume/Area/Length Provider *)

ProviderOps ==
  {"CellVolume", "Face1Area", "Face2Area", "Face3Area", "Edge1Length",
   "Edge2Length", "Edge3Length"}

\* the array the most recent provider call filled
ProviderOutput ==
  IF args.op = "CellVolume" THEN volumes
  ELSE IF args.op \in AreaOps THEN areas ELSE lengths

\* the value the provider op computes for the cell (k, j, i)
Provided(op, k, j, i) ==
  LET dx1 == pmy_block.dx1f[i]
  IN  IF op = "CellVolume"
      THEN Mul(Mul(dx1, pmy_block.dx2f[j]), pmy_block.dx3f[k])
      ELSE IF op = "Face1Area" THEN Mul(pmy_block.dx2f[j], pmy_block.dx3f[k])
      ELSE IF op = "Face2Area" THEN Mul(dx1, pmy_block.dx3f[k])
      ELSE IF op = "Face3Area" THEN Mul(dx1, pmy_block.dx2f[j])
      ELSE IF op = "Edge1Length" THEN dx1
      ELSE IF op = "Edge2Length" THEN pmy_block.dx2f[j]
      ELSE pmy_block.dx3f[k]

\* the rows (k, j) the most recent provider call may have been made for:
\* an index the call does not use is not recorded and can be any
ProviderRows ==
  (IF "k" \in DOMAIN args THEN {args.k} ELSE I3)
    \X (IF "j" \in DOMAIN args THEN {args.j} ELSE I2)

\* the value the most recent provider call computes for the index i
ProviderValue(i) ==
  LET r == CHOOSE r \in ProviderRows : TRUE
  IN  Provided(args.op, r[1], r[2], i)

\* the arguments of a provider call other than its output array
ProviderArgs(a) == [f \in DOMAIN a \ {"buf"} |-> a[f]]

\* C24: a call of CellVolume, FaceNArea or EdgeNLength leaves in the entries
\* il..iu of the caller's array values that depend on k, j, i and the block
\* geometry only and leaves every other entry as the caller passed it, so
\* that with il > iu the array is as passed; and a second call with the same
\* arguments on the array the first call filled leaves the array as it is
C24_ProviderFrame ==
  /\ [](args.op \in ProviderOps =>
          \A i \in I1 :
            ProviderOutput[i] = IF i \in args.il..args.iu THEN ProviderValue(i)
                                ELSE args.buf[i])
  /\ [][(/\ args.op \in ProviderOps
         /\ ProviderArgs(args') = ProviderArgs(args)
         /\ args'.buf = ProviderOutput)
          => <<volumes, areas, lengths>>' = <<volumes, areas, lengths>>]_vars

\* Edge3Length was called a second time on an array of which the first call
\* had filled the interior entries and kept the stale ghost entries
C24_Witness ==
  /\ args.op = "Edge3Length"
  /\ args.buf = lengths
  /\ args.il = pmy_block.is /\ args.iu = pmy_block.ie
  /\ \A i \in I1 :
       lengths[i] = IF i \in args.il..args.iu THEN pmy_block.dx3f[args.k]
                    ELSE R(-1, 1)

----------------------------------------------------------------------------
(* Claims about the Placement of the Rotation Coefficients *)

\* C25: for each face type N and every index i the beta in the rotation
\* coefficients that PrimToLocalN and FluxToGlobalN use equals the beta of
\* the metric the same functions use, and for N = 2 the stored alpha squared
\* equals the alphaSquared of that metric
C25_RotationAtMetricLocation ==
  \A i \in I1 :
    /\ trans_face1_i2_[i] = metric_face1_i2_[i]
    /\ PrimToLocal1Coef(i).my1 = PrimToLocal1Coef(i).g12
    /\ trans_face2_i2_[i] = metric_face2_i2_[i]
    /\ SQR(trans_face2_i1_[i]) = metric_face2_i1_[i]
    /\ Mul(PrimToLocal2Coef(i).mz2, PrimToLocal2Coef(i).mz1)
         = PrimToLocal2Coef(i).g12
    /\ trans_face3_i2_[i] = metric_face3_i2_[i]
    /\ PrimToLocal3Coef(i).mz1 = PrimToLocal3Coef(i).g12
    /\ Neg(FluxToGlobal3Coef(i).m2y) = FluxToGlobal3Coef(i).g12

----------------------------------------------------------------------------
(* Claims about the Two Sides of an Interface *)

\* C26: after a call of PrimToLocal1, PrimToLocal2 or PrimToLocal3, at every
\* index where the left and the right state passed in were equal in all
\* slots, the left and the right state are equal in all slots
C26_SameMapOnBothSides ==
  args.op \in PrimOps =>
    \A i \in I1 :
      (\A s \in PrimSlots : args.prim_left[s][i] = args.prim_right[s][i])
        => \A s \in PrimSlots : prim_left[s][i] = prim_right[s][i]

----------------------------------------------------------------------------
(* Claims about the Consistency of Volumes, Areas, Lengths and Widths *)

\* the value of the provider op at the cell (k, j, i): what the most recent
\* call left in the caller's array if it was a call of op, and what op
\* computes otherwise
ProvidedOrOutput(op, k, j, i) ==
  IF op = args.op THEN ProviderOutput[i] ELSE Provided(op, k, j, i)

\* the volume of the cell (k, j, i) is the product of each face area with
\* the length of the edge normal to the face
VolumeIsAreaTimesLength ==
  args.op \in ProviderOps =>
    \A r \in ProviderRows, i \in args.il..args.iu :
      LET P(op) == ProvidedOrOutput(op, r[1], r[2], i)
      IN  /\ P("CellVolume") = Mul(P("Face1Area"), P("Edge1Length"))
          /\ P("CellVolume") = Mul(P("Face2Area"), P("Edge2Length"))
          /\ P("CellVolume") = Mul(P("Face3Area"), P("Edge3Length"))

EdgeOp(d) == <<"Edge1Length", "Edge2Length", "Edge3Length">>[d]

\* C27 as stated: for every k, j and i the volume is the product of each
\* face area with the matching edge length, and every edge length equals the
\* cell width CenterWidth1, CenterWidth2, CenterWidth3 of the same direction
C27_LengthsAreWidths ==
  /\ VolumeIsAreaTimesLength
  /\ args.op = "CenterWidth" =>
       args.result = Provided(EdgeOp(args.d), args.k, args.j, args.i)

\* C27 amended: for every k, j and i the volume is the product of each face
\* area with the matching edge length; Edge2Length and Edge3Length equal
\* CenterWidth2 and CenterWidth3; Edge1Length is the coordinate spacing
\* dx1f(i), while CenterWidth1 returns the precomputed cell width
C27_VolumeAreaLengthConsistent ==
  /\ VolumeIsAreaTimesLength
  /\ args.op = "Edge1Length" =>
       \A i \in args.il..args.iu : lengths[i] = pmy_block.dx1f[i]
  /\ args.op = "CenterWidth" =>
       args.result = IF args.d = 1 THEN cell_width1_i_[args.i]
                     ELSE Provided(EdgeOp(args.d), args.k, args.j, args.i)

\* Face2Area has filled the areas of a row of the built-in chart in which
\* the cell width differs from the coordinate spacing
C27_Witness ==
  /\ args.op = "Face2Area"
  /\ \E i \in args.il..args.iu :
       /\ areas[i] # args.buf[i]
       /\ CenterWidth1(args.k, pmy_block.js, i) # pmy_block.dx1f[i]

----------------------------------------------------------------------------
(* Claims about what PrimToLocal Leaves Alone *)

\* C28: a call of PrimToLocal-d leaves the density and pressure slots of
\* prim_left and prim_right, and every entry outside its index range
\* (is..ie+1 for d = 1, is..ie for d = 2, 3), as the caller passed them; with
\* magnetic fields disabled it also leaves the IBY and IBZ slots and the
\* whole normal-field output array as passed
C28_PrimFrame ==
  args.op \in PrimOps =>
    LET range == FrameRange(Direction(args.op))
        Kept(s, i) == \/ s \in {IDN, IEN}
                      \/ i \notin range
                      \/ ~MAGNETIC_FIELDS_ENABLED /\ s \in {IBY, IBZ}
    IN  /\ \A s \in PrimSlots, i \in I1 :
             Kept(s, i) => /\ prim_left[s][i] = args.prim_left[s][i]
                           /\ prim_right[s][i] = args.prim_right[s][i]
        /\ \A i \in I1 :
             (i \notin range \/ ~MAGNETIC_FIELDS_ENABLED)
               => bnorm[i] = args.bnorm[i]

\* PrimToLocal2 with magnetic fields disabled has changed a velocity inside
\* its range on arrays whose field slots and normal-field array are nonzero
C28_Witness ==
  /\ args.op = "PrimToLocal2"
  /\ ~MAGNETIC_FIELDS_ENABLED
  /\ \E i \in FrameRange(2) : prim_left[IVX][i] # args.prim_left[IVX][i]
  /\ \A i \in I1 : prim_left[IBY][i] # Zero /\ bnorm[i] # Zero
  /\ I1 \ FrameRange(2) # {}

----------------------------------------------------------------------------
(* Claims about FluxToGlobal where the Chart is not Sheared *)

\* the metric and the rotation coefficients FluxToGlobal-d uses at index i
\* are those of the unsheared chart: alphaSquared = 1, alpha = 1, beta = 0
Unsheared(d, i) ==
  IF d = 1
  THEN /\ metric_face1_i1_[i] = One /\ metric_face1_i2_[i] = Zero
       /\ trans_face1_i2_[i] = Zero
  ELSE IF d = 2
  THEN /\ metric_face2_i1_[i] = One /\ metric_face2_i2_[i] = Zero
       /\ trans_face2_i1_[i] = One /\ trans_face2_i2_[i] = Zero
  ELSE /\ metric_face3_i1_[i] = One /\ metric_face3_i2_[i] = Zero
       /\ trans_face3_i2_[i] = Zero

\* C29: at an index of its range where metric and rotation are unsheared,
\* FluxToGlobal-d leaves the density flux, the momentum fluxes in IM1, IM2,
\* IM3 and the magnetic fluxes in IBY, IBZ as passed and replaces the energy
\* flux in IEN by its negative
C29_UnshearedFluxKeepsSlots ==
  args.op \in FluxOps =>
    \A i \in FrameRange(Direction(args.op)) :
      Unsheared(Direction(args.op), i) =>
        /\ \A s \in PrimSlots \ {IEN} : flux[s][i] = args.flux[s][i]
        /\ flux[IEN][i] = Neg(args.flux[IEN][i])

\* FluxToGlobal2 on the built-in chart has negated a nonzero energy flux at an
\* unsheared index and changed a momentum flux at a sheared one
C29_Witness ==
  /\ args.op = "FluxToGlobal2"
  /\ A # Zero
  /\ \E i \in FrameRange(2) :
       /\ Unsheared(2, i)
       /\ flux[IEN][i] # Zero
       /\ flux[IEN][i] = Neg(args.flux[IEN][i])
  /\ \E i \in FrameRange(2) : flux[IM1][i] # args.flux[IM1][i]

----------------------------------------------------------------------------
(* Claims about the HDF5 Output Writer *)

\* the dataset and group handles the calls on the current file name
Handles == {h5[n].id : n \in DOMAIN h5} \ {<<"file", n>> : n \in 0..MaxFileNumber}

\* the positions in h5 of the calls among c made on the handle id
Calls(c, id) == {n \in DOMAIN h5 : h5[n].id = id /\ h5[n].call \in c}

Creates(id) == Calls({"H5Gcreate", "H5Dcreate2"}, id)

Writes(id) == Calls({"H5Dwrite"}, id)

Closes(id) == Calls({"H5Dclose", "H5Gclose"}, id)

====
